---- MODULE Spec2Model ----
(***************************************************************************)
(* Genesis language core: the ResonanceEngine and the tree-walking         *)
(* interpreter (src/src/genesis_interpreter.py) over the AST that the      *)
(* parser (src/src/genesis_parser.py) builds.                              *)
(*                                                                         *)
(* Numbers.  Scores and thresholds are written in hundredths (92 is 0.92). *)
(* Weights are whole units.  A resonance is an exact fraction              *)
(* [n |-> numerator, d |-> denominator] in hundredths, in lowest terms;    *)
(* the rounding of Python's binary floating point is not modelled.         *)
(*                                                                         *)
(* Values.  A literal value is [num |-> i] or [str |-> s]; an absent       *)
(* (None / missing key) value is None.  AST nodes are records with a       *)
(* "kind" field.  Python dicts are sequences of [name, value] entries in   *)
(* insertion order.                                                        *)
(***************************************************************************)
EXTENDS Integers, Sequences, FiniteSets, TLC

VARIABLES
    \* ---- ResonanceEngine.calculate_resonance, called on its own
    rpc,              \* "call" before the call, "return" after it
    avatars_in,       \* argument avatars: sequence of [weight, score]
    threshold_in,     \* argument covenant_threshold (hundredths)
    resonance,        \* the local 'resonance' before the veto
    final_resonance,  \* the value returned
    \* ---- GenesisRuntime (the interpreter), one execute(program) call
    program,          \* the Program being executed: sequence of declarations
    pc,               \* "declare", "domain", "stmt", "done", "raised"
    decl_i,           \* index of the next declaration (phase 1 loop)
    dom_i,            \* index of the current entry of self.domains (phase 2 loop)
    pulse_i,          \* index of the current pulse of the current domain
    stmt_i,           \* index of the current statement of the current pulse
    covenants,        \* self.covenants
    pantheons,        \* self.pantheons
    domains,          \* self.domains
    active_context,   \* self.possibility_engine.active_context
    potentiality,     \* self.potentiality.state
    context,          \* domain_context of the domain being executed
    tools,            \* self.mcp.tools
    trace,            \* history: what ran, in order
    evals,            \* history: one record per Manifest evaluation
    tool_calls,       \* history: handler invocations, in order
    compliance_manager, \* self.compliance_manager is set (injected by the runtime)
    audit_trail,      \* self.compliance_manager.audit_trail (validation events)
    \* ---- MCPAdapter used on its own (it shares tools and tool_calls)
    mcp_ops,          \* history: the register_tool / call_tool calls made
    \* ---- Lexer, one object and its tokenize() calls
    lex_source,       \* self.source: sequence of characters
    lexer,            \* the Lexer's fields: pos, line, column, tokens, error
    lex_calls,        \* history: what each tokenize() call returned or raised
    \* ---- Parser, one parse() call on a token list
    parse_tokens,     \* self.tokens
    parse_pc,         \* "call", "returned", "raised", "looping"
    parse_out,        \* what parse() produced: pos, the Program, the error
    \* ---- GenesisRuntime of genesis_runtime.py (the runtime environment)
    config,           \* self.config: whether a compliance framework is enabled
    runtime_state,    \* self.state, a RuntimeState
    programs,         \* self.programs: program_id -> Program
    interpreters,     \* self.interpreters: program_id -> the interpreter's fields
    error_state,      \* self.error_state
    active_program_id, \* self.active_program_id
    runtime_manager,  \* self.compliance_manager: 0 for None, else the number
                      \* of the ComplianceManager object
    audit_trails,     \* the audit trail of each ComplianceManager created
    runtime_pc,       \* "idle" between calls, "executing" inside start(),
                      \* "looping" inside a load_program() that does not return
    calls_made,       \* history: the number of calls made
    last_call         \* history: the last call, its arguments and its result

rvars == <<rpc, avatars_in, threshold_in, resonance, final_resonance>>
ivars == <<program, pc, decl_i, dom_i, pulse_i, stmt_i, covenants, pantheons,
           domains, active_context, potentiality, context, tools, trace,
           evals, tool_calls, compliance_manager, audit_trail>>
avars == <<mcp_ops>>
lvars == <<lex_source, lexer, lex_calls>>
pvars == <<parse_tokens, parse_pc, parse_out>>
tvars == <<config, runtime_state, programs, interpreters, error_state,
           active_program_id, runtime_manager, audit_trails, runtime_pc, calls_made,
           last_call>>
vars == <<rpc, avatars_in, threshold_in, resonance, final_resonance,
          program, pc, decl_i, dom_i, pulse_i, stmt_i, covenants, pantheons,
          domains, active_context, potentiality, context, tools, trace,
          evals, tool_calls, compliance_manager, audit_trail, mcp_ops,
          lex_source, lexer, lex_calls, parse_tokens, parse_pc, parse_out,
          config, runtime_state, programs, interpreters, error_state,
          active_program_id, runtime_manager, audit_trails, runtime_pc, calls_made,
          last_call>>

-----------------------------------------------------------------------------
(* Values *)

None == [none |-> TRUE]
Num(i) == [num |-> i]
Str(s) == [str |-> s]
IsNum(v) == "num" \in DOMAIN v
IsStr(v) == "str" \in DOMAIN v

\* Python dict as a sequence of entries, insertion ordered.
Keys(dict) == { dict[i].name : i \in 1..Len(dict) }
IndexOf(dict, name) == CHOOSE i \in 1..Len(dict) : dict[i].name = name
Get(dict, name) == dict[IndexOf(dict, name)].value
\* d[name] = value: an existing key keeps its position, a new key is appended.
Put(dict, name, value) ==
    IF name \in Keys(dict)
    THEN [dict EXCEPT ![IndexOf(dict, name)] = [name |-> name, value |-> value]]
    ELSE Append(dict, [name |-> name, value |-> value])

-----------------------------------------------------------------------------
(* Exact fractions *)

RECURSIVE GCD(_, _)
GCD(a, b) == IF b = 0 THEN a ELSE GCD(b, a % b)

Zero == [n |-> 0, d |-> 1]
Frac(n, d) == IF n = 0 THEN Zero ELSE [n |-> n \div GCD(n, d), d |-> d \div GCD(n, d)]
\* r >= t, t in hundredths
FracGeq(r, t) == r.n >= t * r.d

-----------------------------------------------------------------------------
(* ResonanceEngine *)

DEFAULT_DEMO_RESONANCE_SCORE == 92

\* Avatar.score_proposal: the placeholder returns the constant.
score_proposal(avatar) == DEFAULT_DEMO_RESONANCE_SCORE

\* The loop of calculate_resonance: total_weighted_score and total_weight.
RECURSIVE total_weighted_score(_)
total_weighted_score(avatars) ==
    IF avatars = <<>> THEN 0
    ELSE Head(avatars).weight * Head(avatars).score + total_weighted_score(Tail(avatars))

RECURSIVE total_weight(_)
total_weight(avatars) ==
    IF avatars = <<>> THEN 0
    ELSE Head(avatars).weight + total_weight(Tail(avatars))

RECURSIVE total_score(_)
total_score(avatars) ==
    IF avatars = <<>> THEN 0 ELSE Head(avatars).score + total_score(Tail(avatars))

\* A mean that ignores the weights.
base_resonance_unweighted(avatars) ==
    IF avatars = <<>> THEN Zero
    ELSE Frac(total_score(avatars), Len(avatars))

\* A mean that divides by the number of avatars instead of the weight sum.
base_resonance_by_count(avatars) ==
    IF avatars = <<>> THEN Zero
    ELSE Frac(total_weighted_score(avatars), Len(avatars))

\* The local 'resonance' (the early return for an empty list yields 0.0).
base_resonance(avatars) ==
    IF avatars = <<>> THEN Zero
    ELSE IF total_weight(avatars) = 0 THEN Zero
    ELSE Frac(total_weighted_score(avatars), total_weight(avatars))

\* The veto with > in place of >=.
apply_veto_strict(r, covenant_threshold) ==
    IF r.n > covenant_threshold * r.d THEN r ELSE Zero

\* veto = 1.0 if resonance >= covenant_threshold else 0.0; resonance * veto
apply_veto(r, covenant_threshold) ==
    IF FracGeq(r, covenant_threshold) THEN r ELSE Zero

calculate_resonance(avatars, covenant_threshold) ==
    IF avatars = <<>> THEN Zero
    ELSE apply_veto(base_resonance(avatars), covenant_threshold)

-----------------------------------------------------------------------------
(* AST nodes (genesis_parser.py) *)

Literal(v) == [kind |-> "Literal", value |-> v]
Identifier(name) == [kind |-> "Identifier", name |-> name]
FunctionCall(name, arguments) ==
    [kind |-> "FunctionCall", name |-> name, arguments |-> arguments]
MemberAccess(object, member) ==
    [kind |-> "MemberAccess", object |-> object, member |-> member]

WatchStatement == [kind |-> "Watch"]
DeliberateBlock == [kind |-> "Deliberate"]
\* threshold is properties.get('threshold'): an expression or None
ResonateBlock(threshold) == [kind |-> "Resonate", threshold |-> threshold]
ManifestBlock(statements) == [kind |-> "Manifest", statements |-> statements]
ExecuteStatement(action) == [kind |-> "Execute", action |-> action]
UpdateStatement(target, value) == [kind |-> "Update", target |-> target, value |-> value]
PulseDefinition(statements) == [statements |-> statements]

\* threshold is properties['threshold'] when the key is present, else None
CovenantDeclaration(name, threshold) ==
    [kind |-> "Covenant", name |-> name, threshold |-> threshold]
\* avatars: the names of the AvatarDeclarations
PantheonDeclaration(name, avatars) ==
    [kind |-> "Pantheon", name |-> name, avatars |-> avatars]
DomainDeclaration(name, ctx, pantheon, soul, pulses) ==
    [kind |-> "Domain", name |-> name, context |-> ctx, pantheon |-> pantheon,
     soul |-> soul, pulses |-> pulses]
DecreeDeclaration(name) == [kind |-> "Decree", name |-> name]

-----------------------------------------------------------------------------
(* PotentialityEngine *)

PotentialityStates ==
    {"Unmanifested", "Exploring", "Dreaming", "Manifesting", "Transcending"}

\* PotentialityState(new_state); a ValueError is caught and the state kept.
update_state(state, new_state) ==
    IF IsStr(new_state) /\ new_state.str \in PotentialityStates
    THEN new_state.str ELSE state

-----------------------------------------------------------------------------
(* MCPAdapter *)

builtin_tools ==
    << [name |-> "mcp.call", value |-> "_mcp_call"],
       [name |-> "console.write", value |-> "_console_write"] >>

\* A tool result: the handler invocations made, whether an exception came out
\* (a TypeError for a wrong number of arguments, or the handler's own), and the
\* value returned otherwise.
Result(invoked, raised, value) ==
    [invoked |-> invoked, raised |-> raised, value |-> value]

\* self.tools[name](*args); a handler other than the two built-in ones is one
\* registered with register_tool, and "failing" is one that raises.
RECURSIVE invoke(_, _, _)
invoke(registry, name, args) ==
    LET handler == Get(registry, name)
        call == <<[handler |-> handler, args |-> args]>>
    IN  IF handler = "_mcp_call"
        THEN \* _mcp_call(self, tool_name, *args)
             IF args = <<>> THEN Result(<<>>, TRUE, None)
             ELSE IF IsStr(args[1]) /\ args[1].str \in Keys(registry)
                  THEN LET inner == invoke(registry, args[1].str, Tail(args))
                       IN  Result(call \o inner.invoked, inner.raised, inner.value)
                  ELSE \* return f"MCP:{tool_name}"
                       Result(call, FALSE, [mcp |-> args[1]])
        ELSE IF handler = "_console_write"
        THEN \* _console_write(self, message): return True
             IF Len(args) = 1 THEN Result(call, FALSE, [bool |-> TRUE])
             ELSE Result(<<>>, TRUE, None)
        ELSE IF handler = "failing"
        THEN Result(call, TRUE, None)
        ELSE Result(call, FALSE, [by |-> handler])

\* call_tool(tool_path, *args): None for a name that is not registered
call_tool(registry, tool_path, args) ==
    IF tool_path \in Keys(registry)
    THEN invoke(registry, tool_path, args)
    ELSE Result(<<>>, FALSE, None)

\* A registration that keeps the handler a name already has.
register_tool_keep_first(registry, name, handler) ==
    IF name \in Keys(registry) THEN registry ELSE Put(registry, name, handler)

\* register_tool(name, handler)
register_tool(registry, name, handler) == Put(registry, name, handler)

-----------------------------------------------------------------------------
(* GenesisRuntime: helpers *)

\* Avatar(name=..., ...): the weight keeps its default 1.0
Avatar(name) == [name |-> name, weight |-> 1]

RECURSIVE make_avatars(_)
make_avatars(names) ==
    IF names = <<>> THEN <<>>
    ELSE <<Avatar(Head(names))>> \o make_avatars(Tail(names))

\* A Pantheon declaration that replaces the whole pantheons registry.
process_declaration_replacing(regs, declaration) ==
    IF declaration.kind = "Covenant"
    THEN [regs EXCEPT !.covenants = Put(@, declaration.name, declaration)]
    ELSE IF declaration.kind = "Pantheon"
    THEN [regs EXCEPT !.pantheons =
              <<[name |-> declaration.name, value |-> make_avatars(declaration.avatars)]>>]
    ELSE IF declaration.kind = "Domain"
    THEN [regs EXCEPT !.domains = Put(@, declaration.name, declaration)]
    ELSE regs

\* _process_declaration on the three registries; a Decree matches no branch.
process_declaration(regs, declaration) ==
    IF declaration.kind = "Covenant"
    THEN [regs EXCEPT !.covenants = Put(@, declaration.name, declaration)]
    ELSE IF declaration.kind = "Pantheon"
    THEN [regs EXCEPT !.pantheons =
              Put(@, declaration.name, make_avatars(declaration.avatars))]
    ELSE IF declaration.kind = "Domain"
    THEN [regs EXCEPT !.domains = Put(@, declaration.name, declaration)]
    ELSE regs

Registries == [covenants |-> covenants, pantheons |-> pantheons, domains |-> domains]

\* A collection that takes each avatar name once.
RECURSIVE all_avatars_by_name(_)
all_avatars_by_name(registry) ==
    IF registry = <<>> THEN <<>>
    ELSE LET rest == all_avatars_by_name(Tail(registry))
             Fresh(avatar) == \A i \in 1..Len(rest) : rest[i].name # avatar.name
         IN  SelectSeq(Head(registry).value, Fresh) \o rest

\* for avatars in self.pantheons.values(): all_avatars.extend(avatars)
RECURSIVE all_avatars(_)
all_avatars(registry) ==
    IF registry = <<>> THEN <<>>
    ELSE Head(registry).value \o all_avatars(Tail(registry))

\* The avatars as calculate_resonance sees them: weight and score.
RECURSIVE scored(_)
scored(avatars) ==
    IF avatars = <<>> THEN <<>>
    ELSE <<[weight |-> Head(avatars).weight, score |-> score_proposal(Head(avatars))]>>
         \o scored(Tail(avatars))

RECURSIVE avatar_names(_)
avatar_names(avatars) ==
    IF avatars = <<>> THEN <<>>
    ELSE <<Head(avatars).name>> \o avatar_names(Tail(avatars))

\* The covenant loop of _execute_manifest, from covenant_threshold = acc.
\* max() of a number and a non-number raises TypeError: the result is None.
RECURSIVE covenant_threshold_from(_, _)
covenant_threshold_from(registry, acc) ==
    IF registry = <<>> THEN Num(acc)
    ELSE LET t == Head(registry).value.threshold
         IN  IF t = None THEN covenant_threshold_from(Tail(registry), acc)
             ELSE IF IsNum(t)
             THEN covenant_threshold_from(Tail(registry), IF t.num > acc THEN t.num ELSE acc)
             ELSE None

\* The loop keeping the last threshold seen instead of the maximum.
RECURSIVE covenant_threshold_last(_, _)
covenant_threshold_last(registry, acc) ==
    IF registry = <<>> THEN Num(acc)
    ELSE LET t == Head(registry).value.threshold
         IN  IF t = None THEN covenant_threshold_last(Tail(registry), acc)
             ELSE IF IsNum(t) THEN covenant_threshold_last(Tail(registry), t.num)
             ELSE None

covenant_threshold_of_last(registry) == covenant_threshold_last(registry, 0)

covenant_threshold(registry) == covenant_threshold_from(registry, 0)

DEFAULT_RESONANCE_THRESHOLD == 90

\* context.get('resonance_threshold', 0.9)
resonance_threshold(ctx) ==
    IF ctx.resonance_threshold = None THEN Num(DEFAULT_RESONANCE_THRESHOLD)
    ELSE ctx.resonance_threshold

\* action.name.startswith('mcp.'), over the call names of the model
startswith_mcp(name) == name \in {"mcp.call", "mcp.nothing"}

\* Literal arguments pass their value, any other node passes str(arg).
RECURSIVE action_args(_)
action_args(arguments) ==
    IF arguments = <<>> THEN <<>>
    ELSE <<IF Head(arguments).kind = "Literal" THEN Head(arguments).value
           ELSE Str("<node>")>> \o action_args(Tail(arguments))

\* _execute_action: the tool result
execute_action(registry, action) ==
    IF action.kind = "FunctionCall" /\ startswith_mcp(action.name)
    THEN call_tool(registry, action.name, action_args(action.arguments))
    ELSE Result(<<>>, FALSE, None)

\* One that takes every target for Potentiality.State.
execute_update_any_target(state, update) ==
    IF update.value # None /\ update.value.kind = "Literal"
    THEN update_state(state, update.value.value)
    ELSE state

\* _execute_update: the new Potentiality state
execute_update(state, update) ==
    IF update.value # None
       /\ update.target.kind = "MemberAccess"
       /\ update.target.object = Str("Potentiality")
       /\ update.target.member = "State"
       /\ update.value.kind = "Literal"
    THEN update_state(state, update.value.value)
    ELSE state

\* The statement loop of _execute_manifest from statement k on.  st carries the
\* Potentiality state, the handler invocations and the trace; an exception
\* leaves the loop (raised) with the statements after it not run.
RECURSIVE run_statements(_, _, _, _)
run_statements(registry, statements, k, st) ==
    IF k > Len(statements) \/ st.raised THEN st
    ELSE LET statement == statements[k]
             ev == [ev |-> "exec", a |-> dom_i, b |-> pulse_i, c |-> stmt_i, d |-> k]
         IN  IF statement.kind = "Execute"
             THEN LET r == execute_action(registry, statement.action)
                  IN  run_statements(registry, statements, k + 1,
                          [st EXCEPT !.trace = Append(@, ev),
                                     !.tool_calls = @ \o r.invoked,
                                     !.raised = r.raised])
             ELSE run_statements(registry, statements, k + 1,
                      [st EXCEPT !.trace = Append(@, ev),
                                 !.potentiality = execute_update(@, statement)])

\* The first statement position at or after (p, s) in the pulses; p = 0 when
\* the pulses are exhausted.
RECURSIVE Seek(_, _, _)
Seek(pulses, p, s) ==
    IF p > Len(pulses) THEN [p |-> 0, s |-> 0]
    ELSE IF s <= Len(pulses[p].statements) THEN [p |-> p, s |-> s]
    ELSE Seek(pulses, p + 1, 1)

-----------------------------------------------------------------------------
(* GenesisRuntime: execute(program), one action per loop iteration *)

Event(ev, a, b, c, d) == [ev |-> ev, a |-> a, b |-> b, c |-> c, d |-> d]

\* Where execute() stands once phase 1 is over / a domain is over.
to_domain(i, registry) ==
    IF i <= Len(registry) THEN "domain" ELSE "done"

\* ComplianceManager.validate_covenant_compliance: is_compliant = threshold >= 0.95
COVENANT_COMPLIANCE_THRESHOLD == 95

\* ComplianceManager.validate_execution_compliance: is_compliant = resonance >= 0.80
EXECUTION_COMPLIANCE_RESONANCE == 80

\* validate_covenant_compliance(name, threshold): the comparison raises
\* TypeError when the threshold is not a number; otherwise it logs the event
\* and returns the boolean.
validate_covenant_compliance(threshold) ==
    [raised |-> ~IsNum(threshold),
     compliant |-> IsNum(threshold) /\ threshold.num >= COVENANT_COMPLIANCE_THRESHOLD]

\* validate_execution_compliance(domain_name, resonance)
validate_execution_compliance(r) == FracGeq(r, EXECUTION_COMPLIANCE_RESONANCE)

AuditEvent(type, subject, compliant) ==
    [type |-> type, subject |-> subject, compliant |-> compliant]

\* _process_declaration(declaration) with self.compliance_manager set or not:
\* the registry is written first, then a Covenant's
\* properties.get('threshold', 0.0) is handed to the manager.
process_and_validate(manager, declaration) ==
    LET regs == process_declaration(Registries, declaration)
        validated == manager /\ declaration.kind = "Covenant"
        threshold == IF validated /\ declaration.threshold # None
                     THEN declaration.threshold ELSE Num(0)
        v == validate_covenant_compliance(threshold)
    IN  [regs |-> regs,
         raised |-> validated /\ v.raised,
         audit_trail |->
             IF validated /\ ~v.raised
             THEN Append(audit_trail,
                      AuditEvent("COVENANT_VALIDATION", declaration.name, v.compliant))
             ELSE audit_trail]

\* Phase 1, one iteration: self._process_declaration(declaration)
ProcessDeclaration ==
    /\ pc = "declare"
    /\ LET done == process_and_validate(compliance_manager, program[decl_i])
           regs == done.regs
       IN  /\ covenants' = regs.covenants
           /\ pantheons' = regs.pantheons
           /\ domains' = regs.domains
           /\ audit_trail' = done.audit_trail
           /\ pc' = IF done.raised THEN "raised"
                    ELSE IF decl_i < Len(program) THEN "declare"
                    ELSE to_domain(1, regs.domains)
    /\ decl_i' = decl_i + 1
    /\ dom_i' = 1
    /\ trace' = Append(trace, Event("decl", decl_i, 0, 0, 0))
    /\ UNCHANGED <<program, pulse_i, stmt_i, active_context, potentiality,
                   context, tools, evals, tool_calls, compliance_manager>>
    /\ UNCHANGED <<rvars, avars, lvars, pvars, tvars>>

\* A context that keeps the threshold the previous Domain stored.
domain_context_inherited(domain) ==
    [domain_name |-> domain.name,
     possibility_context |->
         IF domain.context = None THEN None
         ELSE Str(domain.context.path[Len(domain.context.path)]),
     resonance_threshold |-> IF context = None THEN None ELSE context.resonance_threshold]

\* domain_context = {...}; the possibility name is the last dotted segment.
domain_context(domain) ==
    [domain_name |-> domain.name,
     possibility_context |->
         IF domain.context = None THEN None
         ELSE Str(domain.context.path[Len(domain.context.path)]),
     resonance_threshold |-> None]

\* Phase 2, one iteration up to the pulse loop: _execute_domain(domain)
ExecuteDomain ==
    /\ pc = "domain"
    /\ LET domain == domains[dom_i].value
           regs == IF domain.pantheon # None
                   THEN process_declaration(Registries, domain.pantheon)
                   ELSE Registries
           first == Seek(domain.pulses, 1, 1)
       IN  /\ context' = domain_context(domain)
           /\ active_context' = IF domain.context = None THEN active_context
                                ELSE domain_context(domain).possibility_context
           /\ covenants' = regs.covenants
           /\ pantheons' = regs.pantheons
           /\ domains' = regs.domains
           /\ potentiality' = IF domain.soul # None
                              THEN update_state(potentiality, domain.soul.state)
                              ELSE potentiality
           /\ IF first.p # 0
              THEN pc' = "stmt" /\ dom_i' = dom_i
              ELSE pc' = to_domain(dom_i + 1, regs.domains) /\ dom_i' = dom_i + 1
           /\ pulse_i' = first.p
           /\ stmt_i' = first.s
    /\ trace' = Append(trace, Event("domain", dom_i, 0, 0, 0))
    /\ UNCHANGED <<program, decl_i, tools, evals, tool_calls>>
    /\ UNCHANGED <<compliance_manager, audit_trail>>
    /\ UNCHANGED <<rvars, avars, lvars, pvars, tvars>>

CurrentDomain == domains[dom_i].value
CurrentStatement == CurrentDomain.pulses[pulse_i].statements[stmt_i]

\* The loops of _execute_pulse and _execute_domain move on.
NextStatement ==
    LET next == Seek(CurrentDomain.pulses, pulse_i, stmt_i + 1)
    IN  /\ IF next.p # 0
           THEN pc' = "stmt" /\ dom_i' = dom_i
           ELSE pc' = to_domain(dom_i + 1, domains) /\ dom_i' = dom_i + 1
        /\ pulse_i' = next.p
        /\ stmt_i' = next.s

StatementEvent == Event("stmt", dom_i, pulse_i, stmt_i, 0)

ExecuteWatch ==
    /\ pc = "stmt"
    /\ CurrentStatement.kind = "Watch"
    /\ NextStatement
    /\ trace' = Append(trace, StatementEvent)
    /\ UNCHANGED <<program, decl_i, covenants, pantheons, domains, active_context,
                   potentiality, context, tools, evals, tool_calls>>
    /\ UNCHANGED <<compliance_manager, audit_trail>>
    /\ UNCHANGED <<rvars, avars, lvars, pvars, tvars>>

ExecuteDeliberate ==
    /\ pc = "stmt"
    /\ CurrentStatement.kind = "Deliberate"
    /\ NextStatement
    /\ trace' = Append(trace, StatementEvent)
    /\ UNCHANGED <<program, decl_i, covenants, pantheons, domains, active_context,
                   potentiality, context, tools, evals, tool_calls>>
    /\ UNCHANGED <<compliance_manager, audit_trail>>
    /\ UNCHANGED <<rvars, avars, lvars, pvars, tvars>>

\* A Resonate that stores nothing.
execute_resonate_skip(ctx, resonate) == ctx

\* _execute_resonate: the context after it
execute_resonate(ctx, resonate) ==
    LET threshold_expr == resonate.threshold
    IN  IF /\ threshold_expr # None
           /\ threshold_expr.kind = "FunctionCall"
           /\ threshold_expr.arguments # <<>>
           /\ threshold_expr.arguments[1].kind = "Literal"
        THEN [ctx EXCEPT !.resonance_threshold = threshold_expr.arguments[1].value]
        ELSE ctx

ExecuteResonate ==
    /\ pc = "stmt"
    /\ CurrentStatement.kind = "Resonate"
    /\ context' = execute_resonate(context, CurrentStatement)
    /\ NextStatement
    /\ trace' = Append(trace, StatementEvent)
    /\ UNCHANGED <<program, decl_i, covenants, pantheons, domains, active_context,
                   potentiality, tools, evals, tool_calls>>
    /\ UNCHANGED <<compliance_manager, audit_trail>>
    /\ UNCHANGED <<rvars, avars, lvars, pvars, tvars>>

\* A gate that lets every Manifest through.
threshold_met_always(r, threshold) == TRUE

\* if resonance >= threshold
threshold_met(r, threshold) == FracGeq(r, threshold.num)

\* _execute_manifest(manifest, context) with self.compliance_manager set or
\* not: what the call leaves behind.
execute_manifest(manager, manifest) ==
    LET threshold == resonance_threshold(context)
        avatars == all_avatars(pantheons)
        cov == covenant_threshold(covenants)
        eval == [dom |-> dom_i, pulse |-> pulse_i, stmt |-> stmt_i,
                 domain_name |-> context.domain_name,
                 threshold |-> threshold, covenant_threshold |-> cov,
                 avatars |-> avatar_names(avatars),
                 raw |-> None, resonance |-> None, outcome |-> "raised",
                 state_before |-> potentiality, state_after |-> potentiality,
                 calls_before |-> Len(tool_calls), calls_after |-> Len(tool_calls)]
        start == [potentiality |-> potentiality, tool_calls |-> tool_calls,
                  trace |-> Append(trace, StatementEvent), raised |-> FALSE]
        left(e, st, raised, audit) ==
            [eval |-> e, potentiality |-> st.potentiality,
             tool_calls |-> st.tool_calls, trace |-> st.trace,
             raised |-> raised, audit_trail |-> audit]
    IN  IF cov = None
        THEN \* max() raised TypeError
             left(eval, start, TRUE, audit_trail)
        ELSE LET r == calculate_resonance(scored(avatars), cov.num)
                 scoredEval == [eval EXCEPT !.raw = base_resonance(scored(avatars)),
                                            !.resonance = r]
                 audit == IF manager
                          THEN Append(audit_trail,
                                   AuditEvent("EXECUTION_VALIDATION", context.domain_name,
                                              validate_execution_compliance(r)))
                          ELSE audit_trail
             IN  IF ~IsNum(threshold)
                 THEN \* float >= str raised TypeError
                      left(scoredEval, start, TRUE, audit)
                 ELSE IF threshold_met(r, threshold)
                 THEN LET end == run_statements(tools, manifest.statements, 1, start)
                      IN  left([scoredEval EXCEPT !.outcome = "manifested",
                                                  !.state_after = end.potentiality,
                                                  !.calls_after = Len(end.tool_calls)],
                               end, end.raised, audit)
                 ELSE left([scoredEval EXCEPT !.outcome = "deferred"],
                           start, FALSE, audit)

\* _execute_manifest, whole
ExecuteManifest ==
    /\ pc = "stmt"
    /\ CurrentStatement.kind = "Manifest"
    /\ LET done == execute_manifest(compliance_manager, CurrentStatement)
       IN  /\ evals' = Append(evals, done.eval)
           /\ potentiality' = done.potentiality
           /\ tool_calls' = done.tool_calls
           /\ trace' = done.trace
           /\ audit_trail' = done.audit_trail
           /\ IF done.raised
              THEN pc' = "raised" /\ UNCHANGED <<dom_i, pulse_i, stmt_i>>
              ELSE NextStatement
    /\ UNCHANGED <<program, decl_i, covenants, pantheons, domains, active_context,
                   context, tools, compliance_manager>>
    /\ UNCHANGED <<rvars, avars, lvars, pvars, tvars>>

-----------------------------------------------------------------------------
(* Programs: the ASTs Parser.parse() can hand to execute() *)

MaxDecls == 3     \* declarations of a program of the first family
MaxStmts == 3     \* pulse statements of the domain of the second family

SeqsUpTo(S, n) == UNION { [1..k -> S] : k \in 0..n }

\* Resonate { Threshold: <expression> }
Consensus(args) == FunctionCall("Simple_Consensus", args)

\* Manifest bodies
WriteHi == ExecuteStatement(FunctionCall("mcp.call",
               <<Literal(Str("console.write")), Literal(Str("hi"))>>))
CallNoArgs == ExecuteStatement(FunctionCall("mcp.call", <<>>))
Dream == UpdateStatement(MemberAccess(Str("Potentiality"), "State"),
                         Literal(Str("Dreaming")))
\* Update: Foo -> "x", a target that is not a dotted path
Misplaced == UpdateStatement(Identifier("Foo"), Literal(Str("x")))
\* Execute: console.write("hi"), a registered name called directly
Direct == ExecuteStatement(FunctionCall("console.write", <<Literal(Str("hi"))>>))
\* Execute: mcp.nothing(1), a name that is not registered
Nothing == ExecuteStatement(FunctionCall("mcp.nothing", <<Literal(Num(1))>>))
ManifestOk == ManifestBlock(<<Misplaced, Direct, Nothing, WriteHi, Dream>>)
ManifestFailing == ManifestBlock(<<CallNoArgs, WriteHi>>)

PulseStatements ==
    { WatchStatement,
      ResonateBlock(Consensus(<<Literal(Num(0))>>)),
      ResonateBlock(Consensus(<<Literal(Num(95))>>)),
      ResonateBlock(Consensus(<<Literal(Str("high"))>>)),
      ResonateBlock(Literal(Num(95))),
      ManifestOk,
      ManifestFailing }

\* The statements dealt into pulses: a pulse ends after each index in breaks
\* and after the last statement.
RECURSIVE deal(_, _, _, _)
deal(statements, breaks, i, current) ==
    IF i > Len(statements) THEN <<>>
    ELSE LET pulse == Append(current, statements[i])
         IN  IF i \in breaks \/ i = Len(statements)
             THEN <<PulseDefinition(pulse)>> \o deal(statements, breaks, i + 1, <<>>)
             ELSE deal(statements, breaks, i + 1, pulse)

PulseLists ==
    { deal(st, br, 1, <<>>) :
        <<st, br>> \in { <<x, y>> \in SeqsUpTo(PulseStatements, MaxStmts) \X SUBSET (1..MaxStmts) :
                            y \subseteq 1..(Len(x) - 1) } }

Sage == PantheonDeclaration("Council", <<"Sage">>)
Ethics(threshold) == CovenantDeclaration("Ethics", threshold)

\* Second family: what is registered before the one domain.
Preludes ==
    { <<>>, <<Sage>>, <<Ethics(Num(95)), Sage>>, <<Ethics(Num(90)), Sage>> }

BodyPrograms ==
    { prelude \o <<DomainDeclaration("Alpha", None, None, None, pulses)>> :
        <<prelude, pulses>> \in Preludes \X PulseLists }

\* First family: any sequence of these declarations.
Open == [path |-> <<"Possibility", "Open">>]
Declarations ==
    { Ethics(Num(95)), Ethics(Num(90)),
      CovenantDeclaration("Safety", Num(90)),
      CovenantDeclaration("Safety", None),
      \* a lower-case 'threshold:' property holds an expression node
      CovenantDeclaration("Safety", Literal(Num(50))),
      Sage,
      PantheonDeclaration("Council", <<>>),
      PantheonDeclaration("Elders", <<"Sage", "Oracle">>),
      DecreeDeclaration("Halt"),
      DomainDeclaration("Alpha", None, None, None,
          <<PulseDefinition(<<WatchStatement, ManifestOk>>)>>),
      DomainDeclaration("Alpha", Open, PantheonDeclaration("Council", <<"Oracle">>),
          [state |-> Str("Exploring")],
          <<PulseDefinition(<<ResonateBlock(Consensus(<<Literal(Num(0))>>))>>),
            PulseDefinition(<<ManifestOk>>)>>),
      DomainDeclaration("Beta", None, PantheonDeclaration("Inner", <<"Muse">>), None,
          <<PulseDefinition(<<DeliberateBlock, ManifestFailing>>)>>),
      DomainDeclaration("Beta", None, None, [state |-> Str("Asleep")],
          <<PulseDefinition(<<>>),
            PulseDefinition(<<ResonateBlock(Consensus(<<Identifier("x")>>)), WatchStatement>>)>>) }

DeclarationPrograms == SeqsUpTo(Declarations, MaxDecls)

\* Third family: a Manifest of two Update statements and a tool call, in a
\* Domain whose threshold lets it through.
UpdateTargets ==
    { MemberAccess(Str("Potentiality"), "State"),
      MemberAccess(Str("Potentiality"), "Drive"),
      MemberAccess(Str("Soul"), "State"),
      MemberAccess(MemberAccess(Str("Potentiality"), "State"), "Next"),
      Identifier("Foo"),
      FunctionCall("Potentiality.State", <<>>) }
\* value is None for an Update without '->'
UpdateValues ==
    { Literal(Str("Dreaming")), Literal(Str("Transcending")), Literal(Str("Asleep")),
      Literal(Num(1)), Identifier("Dreaming"), None }
Updates == { UpdateStatement(target, value) : target \in UpdateTargets, value \in UpdateValues }

UpdatePrograms ==
    { <<Sage,
        DomainDeclaration("Alpha", None, None, None,
            <<PulseDefinition(<<ResonateBlock(Consensus(<<Literal(Num(0))>>)),
                                ManifestBlock(<<first, second, WriteHi>>),
                                WatchStatement>>)>>)>> :
        first \in Updates, second \in Updates }

Programs == DeclarationPrograms \cup BodyPrograms \cup UpdatePrograms

-----------------------------------------------------------------------------
(* Specifications *)

InterpreterIdle ==
    /\ program = <<>>
    /\ pc = "off"
    /\ decl_i = 0 /\ dom_i = 0 /\ pulse_i = 0 /\ stmt_i = 0
    /\ covenants = <<>> /\ pantheons = <<>> /\ domains = <<>>
    /\ active_context = None
    /\ potentiality = "Unmanifested"
    /\ context = None
    /\ tools = builtin_tools
    /\ trace = <<>> /\ evals = <<>> /\ tool_calls = <<>>
    /\ compliance_manager = FALSE /\ audit_trail = <<>>

AdapterIdle == mcp_ops = <<>>

LexerIdle == lex_source = <<>> /\ lexer = None /\ lex_calls = <<>>

ParserIdle == parse_tokens = <<>> /\ parse_pc = "off" /\ parse_out = None

RuntimeIdle ==
    /\ config = None
    /\ runtime_state = "UNINITIALIZED"
    /\ programs = <<>> /\ interpreters = <<>>
    /\ error_state = None /\ active_program_id = None
    /\ runtime_manager = 0 /\ audit_trails = <<>>
    /\ runtime_pc = "off"
    /\ calls_made = 0
    /\ last_call = None

ResonanceIdle ==
    /\ rpc = "off"
    /\ avatars_in = <<>>
    /\ threshold_in = 0
    /\ resonance = Zero
    /\ final_resonance = Zero

\* GenesisRuntime() and the entry of execute(program)
Init ==
    /\ ResonanceIdle
    /\ RuntimeIdle
    /\ AdapterIdle
    /\ LexerIdle
    /\ ParserIdle
    /\ program \in Programs
    /\ pc = IF program = <<>> THEN "done" ELSE "declare"
    /\ decl_i = 1 /\ dom_i = 0 /\ pulse_i = 0 /\ stmt_i = 0
    /\ covenants = <<>> /\ pantheons = <<>> /\ domains = <<>>
    /\ active_context = None
    /\ potentiality = "Unmanifested"
    /\ context = None
    /\ tools = builtin_tools
    /\ trace = <<>> /\ evals = <<>> /\ tool_calls = <<>>
    /\ compliance_manager \in BOOLEAN /\ audit_trail = <<>>

Next ==
    \/ ProcessDeclaration
    \/ ExecuteDomain
    \/ ExecuteWatch
    \/ ExecuteDeliberate
    \/ ExecuteResonate
    \/ ExecuteManifest

Spec == Init /\ [][Next]_vars

\* calculate_resonance as a function of its arguments
MaxAvatars == 3
MaxWeight == 2
Scores == {0, 50, 92, 100}
CovenantThresholds == {-10, 0, 50, 92, 95, 100, 120}

InitResonance ==
    /\ RuntimeIdle
    /\ InterpreterIdle
    /\ AdapterIdle
    /\ LexerIdle
    /\ ParserIdle
    /\ rpc = "call"
    /\ avatars_in \in SeqsUpTo([weight : 0..MaxWeight, score : Scores], MaxAvatars)
    /\ threshold_in \in CovenantThresholds
    /\ resonance = Zero
    /\ final_resonance = Zero

CalculateResonance ==
    /\ rpc = "call"
    /\ resonance' = base_resonance(avatars_in)
    /\ final_resonance' = calculate_resonance(avatars_in, threshold_in)
    /\ rpc' = "return"
    /\ UNCHANGED <<avatars_in, threshold_in>>
    /\ UNCHANGED <<ivars, avars, lvars, pvars, tvars>>

NextResonance == CalculateResonance

SpecResonance == InitResonance /\ [][NextResonance]_vars

-----------------------------------------------------------------------------
(* Claims about ResonanceEngine.calculate_resonance (SpecResonance) *)

\* The sums of the claims, taken over the argument list by index.
RECURSIVE SigmaW(_, _)
SigmaW(avatars, k) == IF k = 0 THEN 0 ELSE SigmaW(avatars, k - 1) + avatars[k].weight

RECURSIVE SigmaWS(_, _)
SigmaWS(avatars, k) ==
    IF k = 0 THEN 0 ELSE SigmaWS(avatars, k - 1) + avatars[k].weight * avatars[k].score

SumW == SigmaW(avatars_in, Len(avatars_in))
SumWS == SigmaWS(avatars_in, Len(avatars_in))

\* f is the fraction SumWS / SumW (0 when the weights sum to zero).
IsMean(f) ==
    IF SumW = 0 THEN f = Zero
    ELSE f.d > 0 /\ f.n * SumW = SumWS * f.d

\* The mean is strictly below t (hundredths).
MeanBelow(t) == IF SumW = 0 THEN 0 < t ELSE SumWS < t * SumW

\* C1: calculate_resonance returns 0 whenever the weight-normalized mean of the
\* scores is strictly below covenant_threshold, and returns the mean unchanged
\* whenever the mean is at or above covenant_threshold.
C1_VetoOrMean ==
    rpc = "return" =>
        IF MeanBelow(threshold_in) THEN final_resonance = Zero
        ELSE IsMean(final_resonance)

\* C1 witness: a positive mean below the threshold has been zeroed.
C1_Witness ==
    /\ rpc = "return"
    /\ SumWS > 0
    /\ MeanBelow(threshold_in)
    /\ final_resonance = Zero

C6_WeightedMean ==
    rpc = "return" =>
        /\ IsMean(resonance)
        /\ (avatars_in = <<>> \/ SumW = 0) => (resonance = Zero /\ final_resonance = Zero)
        /\ (Len(avatars_in) = 1 /\ avatars_in[1].weight = 1) =>
               resonance.n = avatars_in[1].score * resonance.d

\* C6 witness: a mean of differently weighted, different scores that is no
\* whole number of hundredths.
C6_Witness ==
    /\ rpc = "return"
    /\ \E i, j \in 1..Len(avatars_in) :
          /\ avatars_in[i].weight # avatars_in[j].weight
          /\ avatars_in[i].score # avatars_in[j].score
    /\ resonance.d > 1

-----------------------------------------------------------------------------
(* Claims about Manifest evaluations (Spec) *)

Evals == { evals[i] : i \in 1..Len(evals) }

\* The Manifest block an evaluation record is about.
ManifestOf(e) == domains[e.dom].value.pulses[e.pulse].statements[e.stmt]

\* The indices of the block's statements that ran, in the order they ran.
RanOf(e) ==
    LET Mine(x) == x.ev = "exec" /\ x.a = e.dom /\ x.b = e.pulse /\ x.c = e.stmt
        mine == SelectSeq(trace, Mine)
    IN  [k \in 1..Len(mine) |-> mine[k].d]

\* The raw resonance was below the covenant veto threshold.
Vetoed(e) ==
    /\ e.covenant_threshold # None
    /\ e.raw.n < e.covenant_threshold.num * e.raw.d

\* The final resonance was compared with a number and was below / not below it.
Below(e) ==
    /\ e.resonance # None
    /\ IsNum(e.threshold)
    /\ e.resonance.n < e.threshold.num * e.resonance.d
Met(e) ==
    /\ e.resonance # None
    /\ IsNum(e.threshold)
    /\ e.resonance.n >= e.threshold.num * e.resonance.d

DeclaredThresholds ==
    { covenants[i].value.threshold.num :
        i \in { j \in 1..Len(covenants) : IsNum(covenants[j].value.threshold) } }
ThresholdsAreNumbers ==
    \A i \in 1..Len(covenants) :
        covenants[i].value.threshold = None \/ IsNum(covenants[i].value.threshold)

-----------------------------------------------------------------------------
(* Claims about the resonance_threshold a Manifest compares against (Spec) *)

\* A Resonate statement whose threshold is a call with a literal first argument.
Stores(statement) ==
    /\ statement.kind = "Resonate"
    /\ statement.threshold # None
    /\ statement.threshold.kind = "FunctionCall"
    /\ statement.threshold.arguments # <<>>
    /\ statement.threshold.arguments[1].kind = "Literal"

\* The positions <<pulse, statement>> of the storing Resonate statements of
\* domain entry di that come before position <<p, s>>; with samePulse, those of
\* pulse p only.
StoringBefore(di, p, s, samePulse) ==
    LET pulses == domains[di].value.pulses
    IN  { pos \in UNION { { <<q, t>> : t \in 1..Len(pulses[q].statements) } : q \in 1..p } :
            /\ pos[1] < p \/ pos[2] < s
            /\ samePulse => pos[1] = p
            /\ Stores(pulses[pos[1]].statements[pos[2]]) }

LastOf(positions) ==
    CHOOSE x \in positions :
        \A y \in positions : y[1] < x[1] \/ (y[1] = x[1] /\ y[2] <= x[2])

ExpectedThreshold(e, samePulse) ==
    LET before == StoringBefore(e.dom, e.pulse, e.stmt, samePulse)
        last == LastOf(before)
    IN  IF before = {} THEN Num(90)
        ELSE domains[e.dom].value.pulses[last[1]].statements[last[2]].threshold.arguments[1].value

-----------------------------------------------------------------------------
(* Claims about the order of execution and the registries (Spec) *)

Ended == pc \in {"done", "raised"}

\* The trace events of one kind, in order.
EventsOf(ev) == LET Is(x) == x.ev = ev IN SelectSeq(trace, Is)

\* The statement positions of the pulses, in declared order.
RECURSIVE Flat(_, _)
Flat(pulses, p) ==
    IF p > Len(pulses) THEN <<>>
    ELSE [t \in 1..Len(pulses[p].statements) |-> <<p, t>>] \o Flat(pulses, p + 1)

\* The statement positions of domain entry di that ran, in the order they ran.
StatementsRun(di) ==
    LET Mine(x) == x.ev = "stmt" /\ x.a = di
        mine == SelectSeq(trace, Mine)
    IN  [k \in 1..Len(mine) |-> <<mine[k].b, mine[k].c>>]

\* Every declaration is registered before any Domain starts.
DeclarationsFirst ==
    /\ \A i, j \in 1..Len(trace) : (i < j /\ trace[j].ev = "decl") => trace[i].ev = "decl"
    /\ EventsOf("domain") # <<>> =>
           [k \in 1..Len(EventsOf("decl")) |-> EventsOf("decl")[k].a]
               = [k \in 1..Len(program) |-> k]

\* C9: in one execute(program) call every top-level declaration is registered
\* before any Domain starts executing, and then each registered Domain is
\* executed exactly once, in registration order, its Pulses and their
\* statements run in declared order.
C9_DomainsOnceInOrder ==
    /\ DeclarationsFirst
    /\ Ended =>
         /\ [k \in 1..Len(EventsOf("domain")) |-> EventsOf("domain")[k].a]
                = [k \in 1..Len(domains) |-> k]
         /\ \A di \in 1..Len(domains) :
                StatementsRun(di) = Flat(domains[di].value.pulses, 1)

\* The declarations processed so far, in order: the top-level ones, then the
\* inline Pantheon of each Domain as it starts.
RECURSIVE ProcessedUpTo(_)
ProcessedUpTo(k) ==
    IF k = 0 THEN <<>>
    ELSE LET x == trace[k]
         IN  ProcessedUpTo(k - 1) \o
                (IF x.ev = "decl" THEN <<program[x.a]>>
                 ELSE IF x.ev = "domain" /\ domains[x.a].value.pantheon # None
                 THEN <<domains[x.a].value.pantheon>>
                 ELSE <<>>)
Processed == ProcessedUpTo(Len(trace))

\* What a registry holds for a declaration.
Registered(declaration) ==
    IF declaration.kind = "Pantheon" THEN make_avatars(declaration.avatars)
    ELSE declaration

\* The registry of one kind maps exactly the processed names of that kind,
\* each once, to the last processed declaration of that name.
LastWriteWins(kind, registry) ==
    LET of == { i \in 1..Len(Processed) : Processed[i].kind = kind }
    IN  /\ Keys(registry) = { Processed[i].name : i \in of }
        /\ Cardinality(Keys(registry)) = Len(registry)
        /\ \A i \in of :
              (\A j \in of : Processed[j].name = Processed[i].name => j <= i)
                  => Get(registry, Processed[i].name) = Registered(Processed[i])

RegistriesLastWriteWins ==
    /\ LastWriteWins("Covenant", covenants)
    /\ LastWriteWins("Pantheon", pantheons)
    /\ LastWriteWins("Domain", domains)

\* How often the Domain registered under a name has been started.
StartsOf(name) ==
    Cardinality({ k \in 1..Len(trace) :
                    trace[k].ev = "domain" /\ domains[trace[k].a].name = name })

\* The Domain names declared more than once in the program.
Duplicated ==
    { program[i].name : i \in { i \in 1..Len(program) :
        /\ program[i].kind = "Domain"
        /\ \E j \in 1..Len(program) :
              j # i /\ program[j].kind = "Domain" /\ program[j].name = program[i].name } }

\* C10: after any sequence of declarations has been processed each registry
\* maps every name to the most recently processed declaration of that name, an
\* earlier declaration of the name is not reachable, and a Domain name declared
\* more than once is executed once, not twice.
C10_LastWriteWinsExecutedOnce ==
    /\ RegistriesLastWriteWins
    /\ \A name \in Keys(domains) : StartsOf(name) <= 1
    /\ Ended => \A name \in Duplicated : StartsOf(name) = 1

\* The parts of C9 and C10 that do not depend on execute() running to its end.
OrderAndRegistriesUpToAbort ==
    /\ DeclarationsFirst
    /\ RegistriesLastWriteWins
    /\ \A name \in Keys(domains) : StartsOf(name) <= 1
    /\ pc = "done" =>
         /\ \A name \in Keys(domains) : StartsOf(name) = 1
         /\ [k \in 1..Len(EventsOf("domain")) |-> EventsOf("domain")[k].a]
                = [k \in 1..Len(domains) |-> k]
         /\ \A di \in 1..Len(domains) :
                StatementsRun(di) = Flat(domains[di].value.pulses, 1)

-----------------------------------------------------------------------------
(* Claims about when the registries are written (Spec) *)

\* execute() is past the declaration phase and has not returned.
DomainPhase == pc \in {"domain", "stmt"}

-----------------------------------------------------------------------------
(* Claim about the compliance callbacks (Spec) *)

\* What a step leaves behind, the manager's own audit trail aside.
Interpreted(done) == [done EXCEPT !.audit_trail = <<>>]

\* C12: the compliance callbacks are advisory only.  Both runs of a program
\* start in the same state, so they register the same declarations, reach the
\* same outcome for every Manifest and invoke the same tools in the same order
\* exactly when, in every state a run reaches, the step taken with a
\* ComplianceManager injected equals the step taken without one.
C12_ComplianceIsAdvisory ==
    /\ pc = "declare" =>
           Interpreted(process_and_validate(TRUE, program[decl_i]))
               = Interpreted(process_and_validate(FALSE, program[decl_i]))
    /\ (pc = "stmt" /\ CurrentStatement.kind = "Manifest") =>
           Interpreted(execute_manifest(TRUE, CurrentStatement))
               = Interpreted(execute_manifest(FALSE, CurrentStatement))

\* The part of C12 that holds: a Manifest evaluation ends the same way with
\* and without a manager, whatever boolean the manager returns.
ManifestIgnoresCompliance ==
    (pc = "stmt" /\ CurrentStatement.kind = "Manifest") =>
        Interpreted(execute_manifest(TRUE, CurrentStatement))
            = Interpreted(execute_manifest(FALSE, CurrentStatement))

-----------------------------------------------------------------------------
(* MCPAdapter on its own: register_tool and call_tool in any order *)

MaxOps == 3       \* register_tool / call_tool calls on one adapter

ToolNames == {"mcp.call", "console.write", "custom.tool", "ghost.tool"}
Handlers == {"first", "second", "failing"}
CallArgs ==
    { <<>>, <<Str("hi")>>, <<Str("console.write"), Str("hi")>>,
      <<Str("ghost.tool")>>, <<Str("custom.tool"), Num(1)>> }

\* MCPAdapter()
InitAdapter ==
    /\ ResonanceIdle
    /\ RuntimeIdle
    /\ InterpreterIdle
    /\ AdapterIdle
    /\ LexerIdle
    /\ ParserIdle

Op(op, name, handler, args, result, before, after) ==
    [op |-> op, name |-> name, handler |-> handler, args |-> args,
     result |-> result, tools_before |-> before, tools_after |-> after]

\* mcp.register_tool(name, handler)
RegisterTool ==
    /\ Len(mcp_ops) < MaxOps
    /\ \E name \in ToolNames, handler \in Handlers :
          /\ tools' = register_tool(tools, name, handler)
          /\ mcp_ops' = Append(mcp_ops,
                 Op("register", name, handler, <<>>, Result(<<>>, FALSE, None),
                    tools, tools'))
    /\ UNCHANGED <<program, pc, decl_i, dom_i, pulse_i, stmt_i, covenants, pantheons,
                   domains, active_context, potentiality, context, trace, evals,
                   tool_calls, compliance_manager, audit_trail>>
    /\ UNCHANGED <<rvars, lvars, pvars, tvars>>

\* mcp.call_tool(tool_path, *args)
CallTool ==
    /\ Len(mcp_ops) < MaxOps
    /\ \E name \in ToolNames, args \in CallArgs :
          LET result == call_tool(tools, name, args)
          IN  /\ tool_calls' = tool_calls \o result.invoked
              /\ tools' = tools
              /\ mcp_ops' = Append(mcp_ops,
                     Op("call", name, "", args, result, tools, tools'))
    /\ UNCHANGED <<program, pc, decl_i, dom_i, pulse_i, stmt_i, covenants, pantheons,
                   domains, active_context, potentiality, context, trace, evals,
                   compliance_manager, audit_trail>>
    /\ UNCHANGED <<rvars, lvars, pvars, tvars>>

NextAdapter ==
    \/ RegisterTool
    \/ CallTool

SpecAdapter == InitAdapter /\ [][NextAdapter]_vars

-----------------------------------------------------------------------------
(* Claims about the MCPAdapter (SpecAdapter) *)

\* The register_tool calls for a name made before operation k.
RegistrationsBefore(name, k) ==
    { j \in 1..(k - 1) : mcp_ops[j].op = "register" /\ mcp_ops[j].name = name }

Max(S) == CHOOSE x \in S : \A y \in S : y <= x

\* C13: call_tool with a name that is not in the tool registry never raises:
\* it returns None, invokes no handler and leaves the registry unchanged; after
\* register_tool(name, h) a call_tool(name, ...) invokes the most recently
\* registered handler for that name, with the arguments of the call.
C13_UnknownToolIsNoneRegisteredIsLatest ==
    \A k \in 1..Len(mcp_ops) :
        LET o == mcp_ops[k]
        IN  o.op = "call" =>
              /\ o.name \notin Keys(o.tools_before) =>
                    /\ ~o.result.raised
                    /\ o.result.value = None
                    /\ o.result.invoked = <<>>
                    /\ o.tools_after = o.tools_before
              /\ RegistrationsBefore(o.name, k) # {} =>
                    /\ o.result.invoked # <<>>
                    /\ o.result.invoked[1] =
                          [handler |-> mcp_ops[Max(RegistrationsBefore(o.name, k))].handler,
                           args |-> o.args]

\* C13 witness: one adapter saw a call of an unregistered name and a call of a
\* name registered before it.
C13_Witness ==
    /\ \E k \in 1..Len(mcp_ops) :
          mcp_ops[k].op = "call" /\ mcp_ops[k].name \notin Keys(mcp_ops[k].tools_before)
    /\ \E k \in 1..Len(mcp_ops) :
          mcp_ops[k].op = "call" /\ RegistrationsBefore(mcp_ops[k].name, k) # {}

-----------------------------------------------------------------------------
(* Claims about failing statements and tool dispatch inside a Manifest (Spec) *)

Statements(e) == ManifestOf(e).statements

\* An Execute whose tool call raises.
FailingCall(statement) ==
    /\ statement.kind = "Execute"
    /\ execute_action(tools, statement.action).raised

\* An Update whose target is not the dotted path Potentiality.State.
MalformedUpdate(statement) ==
    /\ statement.kind = "Update"
    /\ ~ ( /\ statement.target.kind = "MemberAccess"
           /\ statement.target.object = Str("Potentiality")
           /\ statement.target.member = "State" )

Ran(e, k) == \E n \in 1..Len(RanOf(e)) : RanOf(e)[n] = k

MalformedUpdateIsNoOp ==
    \A i \in 1..Len(evals) :
        LET e == evals[i]
        IN  Met(e) =>
              \A k \in 1..Len(Statements(e)) :
                  ( /\ MalformedUpdate(Statements(e)[k])
                    /\ \A n \in 1..(k - 1) : ~FailingCall(Statements(e)[n]) ) =>
                      /\ Ran(e, k)
                      /\ k < Len(Statements(e)) => Ran(e, k + 1)

McpNamesAreDispatched ==
    \A e \in Evals :
        \A k \in 1..Len(Statements(e)) :
            LET statement == Statements(e)[k]
                result == execute_action(tools, statement.action)
            IN  ( /\ Ran(e, k)
                  /\ statement.kind = "Execute"
                  /\ statement.action.kind = "FunctionCall"
                  /\ ~result.raised ) =>
                    IF statement.action.name \in Keys(tools)
                    THEN startswith_mcp(statement.action.name) =>
                            /\ result.invoked # <<>>
                            /\ result.invoked[1] =
                                  [handler |-> Get(tools, statement.action.name),
                                   args |-> action_args(statement.action.arguments)]
                    ELSE result.invoked = <<>>

-----------------------------------------------------------------------------
(* Claim about Update statements (Spec) *)

\* The Update names the dotted path Potentiality.State and a literal that is
\* one of the five states.
NamesState(update) ==
    /\ update.target = MemberAccess(Str("Potentiality"), "State")
    /\ update.value # None
    /\ update.value.kind = "Literal"
    /\ update.value.value \in {Str(state) : state \in PotentialityStates}

\* The Potentiality state after the first n statements of a Manifest body
RECURSIVE StateAfter(_, _, _)
StateAfter(state, statements, n) ==
    IF n = 0 THEN state
    ELSE LET before == StateAfter(state, statements, n - 1)
         IN  IF statements[n].kind = "Update" /\ NamesState(statements[n])
             THEN statements[n].value.value.str
             ELSE before

\* The statements of the Manifest that the step has run
RanInStep == Len(trace') - Len(trace) - 1

-----------------------------------------------------------------------------
(* Claims about what a Manifest sees of other Domains (Spec) *)

\* The Pantheons known when the Domain at entry di of self.domains executes:
\* the top-level Pantheons of the program from declaration i on, then the
\* inline Pantheons of the entries from j up to di, each under its name.
RECURSIVE PantheonsFor(_, _, _, _)
PantheonsFor(di, i, j, known) ==
    IF i <= Len(program)
    THEN PantheonsFor(di, i + 1, j,
             IF program[i].kind = "Pantheon"
             THEN Put(known, program[i].name, program[i].avatars) ELSE known)
    ELSE IF j <= di
    THEN PantheonsFor(di, i, j + 1,
             IF domains[j].value.pantheon # None
             THEN Put(known, domains[j].value.pantheon.name,
                      domains[j].value.pantheon.avatars)
             ELSE known)
    ELSE known

\* The avatar names of the Pantheons, one after the other
RECURSIVE NamesIn(_)
NamesIn(known) ==
    IF known = <<>> THEN <<>> ELSE Head(known).value \o NamesIn(Tail(known))

-----------------------------------------------------------------------------
(* Lexer (src/src/genesis_parser.py).  A source text is a sequence of        *)
(* one-character strings; a Lexer is [pos, line, column, tokens, error],     *)
(* pos counting from 0 as in the source; error is None until tokenize()      *)
(* raises.                                                                   *)

Digits == {"0", "1", "2", "3", "4", "5", "6", "7", "8", "9"}
\* isalpha() or '_', for the ASCII letters
Letters ==
    {"a", "b", "c", "d", "e", "f", "g", "h", "i", "j", "k", "l", "m",
     "n", "o", "p", "q", "r", "s", "t", "u", "v", "w", "x", "y", "z",
     "A", "B", "C", "D", "E", "F", "G", "H", "I", "J", "K", "L", "M",
     "N", "O", "P", "Q", "R", "S", "T", "U", "V", "W", "X", "Y", "Z", "_"}
Quotes == {"\"", "'"}

\* ''.join(chars): the Python str of a sequence of characters
RECURSIVE join(_)
join(chars) == IF chars = <<>> THEN "" ELSE Head(chars) \o join(Tail(chars))

\* Lexer.KEYWORDS
Keywords ==
    [Covenant |-> "COVENANT", Pantheon |-> "PANTHEON", Avatar |-> "AVATAR",
     Domain |-> "DOMAIN", Soul |-> "SOUL", Purpose |-> "PURPOSE",
     Pulse |-> "PULSE", Watch |-> "WATCH", Deliberate |-> "DELIBERATE",
     Synthesize |-> "SYNTHESIZE", Manifest |-> "MANIFEST",
     Decree |-> "DECREE", Potentiality |-> "POTENTIALITY",
     Vessel |-> "VESSEL", Lineage |-> "LINEAGE", Aura |-> "AURA",
     Essence |-> "ESSENCE", Intent |-> "INTENT", Threshold |-> "THRESHOLD",
     Invariant |-> "INVARIANT", Condition |-> "CONDITION",
     Action |-> "ACTION", Execute |-> "EXECUTE", Update |-> "UPDATE",
     Resonate |-> "RESONATE", Proposal |-> "PROPOSAL", Metric |-> "METRIC",
     Alignment |-> "ALIGNMENT", Aspiration |-> "ASPIRATION", on |-> "ON",
     Interval |-> "INTERVAL", State |-> "STATE", Drive |-> "DRIVE",
     Reflect |-> "REFLECT", Override |-> "OVERRIDE",
     Constraint |-> "CONSTRAINT", Observe |-> "OBSERVE",
     Objective |-> "OBJECTIVE", Anchor |-> "ANCHOR",
     Trajectory |-> "TRAJECTORY", Resonance |-> "RESONANCE"]

\* self.KEYWORDS.get(value, TokenType.IDENTIFIER)
KEYWORDS(value) ==
    IF join(value) \in DOMAIN Keywords THEN Keywords[join(value)] ELSE "IDENTIFIER"

Token(type, value, line, column) ==
    [type |-> type, value |-> value, line |-> line, column |-> column]

\* Lexer(source)
Lexer == [pos |-> 0, line |-> 1, column |-> 1, tokens |-> <<>>, error |-> None]

\* current_char / peek_char: "" stands for None (end of the source)
peek_char(src, lx, offset) ==
    IF lx.pos + offset >= Len(src) THEN "" ELSE src[lx.pos + offset + 1]
current_char(src, lx) == peek_char(src, lx, 0)

\* advance(): a newline starts a new line at column 1
advance(src, lx) ==
    IF lx.pos >= Len(src) THEN lx
    ELSE IF src[lx.pos + 1] = "\n"
         THEN [lx EXCEPT !.pos = @ + 1, !.line = @ + 1, !.column = 1]
         ELSE [lx EXCEPT !.pos = @ + 1, !.column = @ + 1]

RECURSIVE skip_whitespace(_, _)
skip_whitespace(src, lx) ==
    IF current_char(src, lx) \in {" ", "\t", "\r"}
    THEN skip_whitespace(src, advance(src, lx))
    ELSE lx

\* the rest of a line comment
RECURSIVE skip_line(_, _)
skip_line(src, lx) ==
    IF current_char(src, lx) \notin {"", "\n"}
    THEN skip_line(src, advance(src, lx))
    ELSE lx

\* the rest of a block comment, up to and including the closing ###
RECURSIVE skip_block(_, _)
skip_block(src, lx) ==
    IF current_char(src, lx) = "" THEN lx
    ELSE IF /\ current_char(src, lx) = "#"
            /\ peek_char(src, lx, 1) = "#"
            /\ peek_char(src, lx, 2) = "#"
         THEN advance(src, advance(src, advance(src, lx)))
         ELSE skip_block(src, advance(src, lx))

skip_comment(src, lx) ==
    IF peek_char(src, lx, 1) = "#" /\ peek_char(src, lx, 2) = "#"
    THEN skip_block(src, advance(src, advance(src, advance(src, lx))))
    ELSE skip_line(src, lx)

\* An escaped character of a string literal.
Escaped(c) == IF c = "n" THEN "\n" ELSE IF c = "t" THEN "\t" ELSE c

\* read_string(): [lx, value]; the value is the sequence of characters read.
\* An escape at the very end of the source appends None, and join() raises.
RECURSIVE read_chars(_, _, _, _)
read_chars(src, lx, quote, value) ==
    LET c == current_char(src, lx)
    IN  IF c = "" \/ c = quote
        THEN [lx |-> IF c = quote THEN advance(src, lx) ELSE lx, value |-> value]
        ELSE IF c = "\\"
        THEN LET after == advance(src, lx)
                 e == current_char(src, after)
             IN  IF e = ""
                 THEN [lx |-> [after EXCEPT !.error = [type |-> "TypeError"]],
                       value |-> value]
                 ELSE read_chars(src, advance(src, after), quote,
                                 Append(value, Escaped(e)))
        ELSE read_chars(src, advance(src, lx), quote, Append(value, c))

read_string(src, lx) ==
    read_chars(src, advance(src, lx), current_char(src, lx), <<>>)

\* read_number(): [lx, value]; digits and at most one dot
RECURSIVE read_digits(_, _, _, _)
read_digits(src, lx, has_dot, digits) ==
    LET c == current_char(src, lx)
    IN  IF c \in Digits \/ (c = "." /\ ~has_dot)
        THEN read_digits(src, advance(src, lx), has_dot \/ c = ".", Append(digits, c))
        ELSE [lx |-> lx, digits |-> digits, has_dot |-> has_dot]

DigitValue(c) == CHOOSE n \in 0..9 : <<"0", "1", "2", "3", "4", "5", "6", "7", "8", "9">>[n + 1] = c

RECURSIVE int(_)
int(digits) ==
    IF digits = <<>> THEN 0
    ELSE 10 * int(SubSeq(digits, 1, Len(digits) - 1)) + DigitValue(digits[Len(digits)])

\* float(num_str) keeps its digits; int(num_str) is the integer
read_number(src, lx) ==
    LET r == read_digits(src, lx, FALSE, <<>>)
    IN  [lx |-> r.lx,
         value |-> IF r.has_dot THEN [float |-> r.digits] ELSE [int |-> int(r.digits)]]

RECURSIVE read_name(_, _, _)
read_name(src, lx, value) ==
    LET c == current_char(src, lx)
    IN  IF c \in Letters \cup Digits
        THEN read_name(src, advance(src, lx), Append(value, c))
        ELSE [lx |-> lx, value |-> value]

read_identifier(src, lx) == read_name(src, lx, <<>>)

emit(lx, token) == [lx EXCEPT !.tokens = Append(@, token)]

SyntaxError(char, line, column) ==
    [type |-> "SyntaxError", char |-> char, line |-> line, column |-> column]

Delimiters ==
    [c \in {"{", "}", "(", ")", ":", ",", "."} |->
        CASE c = "{" -> "LBRACE" [] c = "}" -> "RBRACE" [] c = "(" -> "LPAREN"
          [] c = ")" -> "RPAREN" [] c = ":" -> "COLON" [] c = "," -> "COMMA"
          [] c = "." -> "DOT"]

\* One operator that always stops at its first character.
operator_single(src, lx, line, column) ==
    LET char == current_char(src, lx)
    IN  IF char = ">" THEN emit(advance(src, lx), Token("GT", <<">">>, line, column))
        ELSE IF char = "<" THEN emit(advance(src, lx), Token("LT", <<"<">>, line, column))
        ELSE [lx EXCEPT !.error = SyntaxError(char, line, column)]

\* The operators and delimiters branch of tokenize(), for a character that
\* starts no string, number, identifier or comment.
operator(src, lx, line, column) ==
    LET char == current_char(src, lx)
        next == peek_char(src, lx, 1)
        two == advance(src, advance(src, lx))
    IN  IF char \in DOMAIN Delimiters
        THEN advance(src, emit(lx, Token(Delimiters[char], <<char>>, line, column)))
        ELSE IF char = ">"
        THEN IF next = "=" THEN emit(two, Token("GTE", <<">", "=">>, line, column))
             ELSE emit(advance(src, lx), Token("GT", <<">">>, line, column))
        ELSE IF char = "<"
        THEN IF next = "=" THEN emit(two, Token("LTE", <<"<", "=">>, line, column))
             ELSE emit(advance(src, lx), Token("LT", <<"<">>, line, column))
        ELSE IF char = "=" /\ next = "="
        THEN emit(two, Token("EQ", <<"=", "=">>, line, column))
        ELSE IF char = "!" /\ next = "="
        THEN emit(two, Token("NEQ", <<"!", "=">>, line, column))
        ELSE IF char = "-" /\ next = ">"
        THEN emit(two, Token("ARROW", <<"-", ">">>, line, column))
        ELSE [lx EXCEPT !.error = SyntaxError(char, line, column)]

\* One iteration of the while loop of tokenize(): white space, then a
\* comment, a newline, or one token.
scan_token(src, lx0) ==
    LET lx == skip_whitespace(src, lx0)
        c == current_char(src, lx)
    IN  IF c = "" THEN lx
        ELSE IF c = "#" THEN skip_comment(src, lx)
        ELSE IF c = "\n" THEN advance(src, lx)
        ELSE IF c \in Quotes
        THEN LET r == read_string(src, lx)
             IN  IF r.lx.error # None THEN r.lx
                 ELSE emit(r.lx, Token("STRING", r.value, lx.line, lx.column))
        ELSE IF c \in Digits
        THEN LET r == read_number(src, lx)
             IN  emit(r.lx, Token("NUMBER", r.value, lx.line, lx.column))
        ELSE IF c \in Letters
        THEN LET r == read_identifier(src, lx)
             IN  emit(r.lx, Token(KEYWORDS(r.value), r.value, lx.line, lx.column))
        ELSE operator(src, lx, lx.line, lx.column)

\* The while loop of tokenize(), from the Lexer's present position.
RECURSIVE scan(_, _)
scan(src, lx0) ==
    IF lx0.error # None \/ current_char(src, lx0) = "" THEN lx0
    ELSE scan(src, scan_token(src, lx0))

\* tokenize(): the loop, then the EOF token is appended to self.tokens
tokenize(src, lx) ==
    LET end == scan(src, lx)
    IN  IF end.error # None THEN end
        ELSE emit(end, Token("EOF", None, end.line, end.column))

-----------------------------------------------------------------------------
(* One Lexer object and its tokenize() calls *)

MaxSource == 3     \* characters of the source text
MaxCalls == 2      \* tokenize() calls on one Lexer

Alphabet ==
    {"a", "1", " ", "\n", "=", "!", "-", ">", "<", "@", "#", "\"", "\\", "."}

\* Lexer(source)
InitLexer ==
    /\ ResonanceIdle
    /\ RuntimeIdle
    /\ InterpreterIdle
    /\ AdapterIdle
    /\ ParserIdle
    /\ lex_source \in SeqsUpTo(Alphabet, MaxSource)
    /\ lexer = Lexer
    /\ lex_calls = <<>>

\* lexer.tokenize(): the call runs from the fields the Lexer has now and
\* either raises or returns self.tokens
Tokenize ==
    /\ Len(lex_calls) < MaxCalls
    /\ LET end == tokenize(lex_source, [lexer EXCEPT !.error = None])
       IN  /\ lexer' = end
           /\ lex_calls' = Append(lex_calls,
                  [raised |-> end.error # None,
                   error |-> end.error,
                   tokens |-> IF end.error # None THEN None ELSE end.tokens])
    /\ UNCHANGED lex_source
    /\ UNCHANGED <<rvars, ivars, avars, pvars, tvars>>

NextLexer == Tokenize

SpecLexer == InitLexer /\ [][NextLexer]_vars

-----------------------------------------------------------------------------
(* Claims about the Lexer (SpecLexer) *)

EndsWithOneEOF(tokens) ==
    /\ tokens # <<>>
    /\ tokens[Len(tokens)].type = "EOF"
    /\ Cardinality({i \in 1..Len(tokens) : tokens[i].type = "EOF"}) = 1

\* C16: every tokenize() call that returns, returns a non-empty list whose
\* last token is EOF and that holds exactly one EOF token -- for every source
\* text and for every call made on one Lexer.
C16_TokensEndWithOneEOF ==
    \A k \in 1..Len(lex_calls) :
        ~lex_calls[k].raised => EndsWithOneEOF(lex_calls[k].tokens)

\* The part that holds: the first tokenize() call of a Lexer.
FirstCallEndsWithOneEOF ==
    (lex_calls # <<>> /\ ~lex_calls[1].raised) => EndsWithOneEOF(lex_calls[1].tokens)

\* Line and column of the i-th character of a text, counted from the text
\* itself: lines are ended by "\n", columns start at 1.
LineOf(src, i) == 1 + Cardinality({j \in 1..(i - 1) : src[j] = "\n"})
ColumnOf(src, i) ==
    LET breaks == {j \in 1..(i - 1) : src[j] = "\n"}
    IN  IF breaks = {} THEN i ELSE i - Max(breaks)

TwoCharacter ==
    { <<">", "=", "GTE">>, <<"<", "=", "LTE">>, <<"=", "=", "EQ">>,
      <<"!", "=", "NEQ">>, <<"-", ">", "ARROW">> }

\* The character at i starts no token: it is no delimiter, no '>' or '<',
\* and it does not open a two-character operator.
Offending(src, i) ==
    LET c == src[i]
        next == IF i < Len(src) THEN src[i + 1] ELSE ""
    IN  /\ c \notin Letters \cup Digits \cup Quotes \cup DOMAIN Delimiters
        /\ c \notin {" ", "\t", "\r", "\n", "#", ">", "<"}
        /\ \A op \in TwoCharacter : ~(c = op[1] /\ next = op[2])

\* Everything before i is made of names, integers, blanks and newlines, so
\* a token can only start at i.
PlainBefore(src, i) ==
    \A j \in 1..(i - 1) : src[j] \in Letters \cup Digits \cup {" ", "\n"}

StartsAt(src, token, i) ==
    token.line = LineOf(src, i) /\ token.column = ColumnOf(src, i)

\* C17: a lex error names the offending character and its line and column,
\* for every character that starts no token (a lone '=', '!' or '-'
\* included); '>=', '<=', '==', '!=' and '->' are one token each.
C17_ErrorAtOffendingCharacterAndTwoCharacterOperators ==
    /\ \A k \in 1..Len(lex_calls) :
          (lex_calls[k].raised /\ lex_calls[k].error.type = "SyntaxError") =>
              \E i \in 1..Len(lex_source) :
                  /\ Offending(lex_source, i)
                  /\ lex_calls[k].error =
                        SyntaxError(lex_source[i], LineOf(lex_source, i),
                                    ColumnOf(lex_source, i))
    /\ Len(lex_calls) = 1 =>
          \A i \in 1..Len(lex_source) :
              PlainBefore(lex_source, i) =>
                  /\ Offending(lex_source, i) =>
                        /\ lex_calls[1].raised
                        /\ lex_calls[1].error =
                              SyntaxError(lex_source[i], LineOf(lex_source, i),
                                          ColumnOf(lex_source, i))
                  /\ \A op \in TwoCharacter :
                        (/\ i < Len(lex_source)
                         /\ lex_source[i] = op[1]
                         /\ lex_source[i + 1] = op[2]) =>
                            /\ \E n \in 1..Len(lexer.tokens) :
                                  /\ lexer.tokens[n].type = op[3]
                                  /\ lexer.tokens[n].value = <<op[1], op[2]>>
                                  /\ StartsAt(lex_source, lexer.tokens[n], i)
                            /\ Cardinality(
                                  {n \in 1..Len(lexer.tokens) :
                                     \/ StartsAt(lex_source, lexer.tokens[n], i)
                                     \/ StartsAt(lex_source, lexer.tokens[n], i + 1)}) = 1

\* '==' became one token, and the lone '!' after it was reported where it
\* stands.
C17_Witness ==
    /\ lex_source = <<"=", "=", "!">>
    /\ Len(lex_calls) = 1
    /\ lex_calls[1].raised
    /\ lex_calls[1].error = SyntaxError("!", 1, 3)
    /\ Len(lexer.tokens) = 1
    /\ lexer.tokens[1] = Token("EQ", <<"=", "=">>, 1, 1)

-----------------------------------------------------------------------------
(* Parser (src/src/genesis_parser.py).  self.tokens is a sequence of Tokens  *)
(* that ends with EOF; self.pos counts from 0.  Every parse_* operator takes *)
(* the tokens and the position it starts at and yields a result:             *)
(*   status "ok"      - it returned node, the Parser now stands at pos;      *)
(*   status "raised"  - it raised error while standing at pos;               *)
(*   status "looping" - it is in a loop whose iterations leave pos in place. *)

Ok(pos, node) == [status |-> "ok", pos |-> pos, node |-> node, error |-> None]
Raised(pos, error) == [status |-> "raised", pos |-> pos, node |-> None, error |-> error]
Looping(pos) == [status |-> "looping", pos |-> pos, node |-> None, error |-> None]

\* Statement sequencing: what follows r runs only when r returned.
Then(r, F(_)) == IF r.status # "ok" THEN r ELSE F(r)
\* The value returned at the end of a method, built from the last result.
Return(r, F(_)) == IF r.status # "ok" THEN r ELSE Ok(r.pos, F(r.node))

\* SyntaxError("Expected X, got Y at line L, column C")
Expected(type, token) ==
    [type |-> "SyntaxError", expected |-> type, got |-> token.type,
     line |-> token.line, column |-> token.column]

\* SyntaxError("Unexpected token Y at line L, column C")
Unexpected(token) ==
    [type |-> "SyntaxError", expected |-> "declaration", got |-> token.type,
     line |-> token.line, column |-> token.column]

current_token(ts, pos) == IF pos >= Len(ts) THEN ts[Len(ts)] ELSE ts[pos + 1]

\* Parser.advance(): the position never moves past the last token
next_pos(ts, pos) == IF pos < Len(ts) - 1 THEN pos + 1 ELSE pos

\* expect(token_type): the node of the result is the token's value
expect(ts, pos, type) ==
    IF current_token(ts, pos).type # type
    THEN Raised(pos, Expected(type, current_token(ts, pos)))
    ELSE Ok(next_pos(ts, pos), current_token(ts, pos).value)

\* Several expect() calls in a row; the node is the sequence of the values.
RECURSIVE expects(_, _, _, _)
expects(ts, pos, types, values) ==
    IF types = <<>> THEN Ok(pos, values)
    ELSE Then(expect(ts, pos, Head(types)),
              LAMBDA r : expects(ts, r.pos, Tail(types), Append(values, r.node)))

\* expect(type) after r, whose node is kept
ThenExpect(ts, r, type) ==
    Then(r, LAMBDA a : Return(expect(ts, a.pos, type), LAMBDA value : a.node))

RelationalOperators == {"GT", "LT", "GTE", "LTE", "EQ", "NEQ"}
\* Token types a member name may have (parse_member_access).
MemberNames == {"IDENTIFIER", "STATE", "DRIVE", "VESSEL", "POTENTIALITY"}

Comparison(op, left, right) ==
    [kind |-> "comparison", op |-> op, left |-> left, right |-> right]

RECURSIVE member_access_to_string(_)
member_access_to_string(ma) ==
    IF "kind" \in DOMAIN ma.object
    THEN member_access_to_string(ma.object) \o "." \o ma.member
    ELSE ma.object.str \o "." \o ma.member

\* The member after a DOT: a name-like token, else expect(IDENTIFIER) raises.
member(ts, pos) ==
    IF current_token(ts, pos).type \in MemberNames
    THEN Ok(next_pos(ts, pos), current_token(ts, pos).value.str)
    ELSE expect(ts, pos, "IDENTIFIER")

RECURSIVE parse_expression(_, _)

\* The while loop of parse_function_call / parse_function_call_on_member.
\* Whether an iteration runs and what it does depends on pos alone, so an
\* iteration that leaves pos where it was is repeated for ever.
RECURSIVE parse_arguments(_, _, _)
parse_arguments(ts, pos, arguments) ==
    IF current_token(ts, pos).type = "RPAREN" THEN Ok(pos, arguments)
    ELSE Then(parse_expression(ts, pos), LAMBDA e :
            IF current_token(ts, e.pos).type # "COMMA" /\ e.pos = pos THEN Looping(pos)
            ELSE parse_arguments(ts,
                     IF current_token(ts, e.pos).type = "COMMA"
                     THEN next_pos(ts, e.pos) ELSE e.pos,
                     Append(arguments, e.node)))

parse_function_call(ts, pos, name) ==
    Then(expect(ts, pos, "LPAREN"), LAMBDA open :
      Return(ThenExpect(ts, parse_arguments(ts, open.pos, <<>>), "RPAREN"),
             LAMBDA arguments : FunctionCall(name, arguments)))

parse_function_call_on_member(ts, pos, member_access) ==
    parse_function_call(ts, pos, member_access_to_string(member_access))

\* The chain loop of parse_member_access.
RECURSIVE member_chain(_, _, _)
member_chain(ts, pos, result) ==
    IF current_token(ts, pos).type # "DOT" THEN Ok(pos, result)
    ELSE Then(member(ts, next_pos(ts, pos)),
              LAMBDA m : member_chain(ts, m.pos, MemberAccess(result, m.node)))

parse_member_access(ts, pos, obj) ==
    Then(expect(ts, pos, "DOT"), LAMBDA dot :
      Then(member(ts, dot.pos), LAMBDA first :
        Then(member_chain(ts, first.pos, MemberAccess(Str(obj), first.node)),
             LAMBDA chain :
               IF current_token(ts, chain.pos).type = "LPAREN"
               THEN parse_function_call_on_member(ts, chain.pos, chain.node)
               ELSE chain)))

\* What follows the name of a primary expression.
after_name(ts, pos, name) ==
    IF current_token(ts, pos).type = "LPAREN" THEN parse_function_call(ts, pos, name)
    ELSE IF current_token(ts, pos).type = "DOT" THEN parse_member_access(ts, pos, name)
    ELSE Ok(pos, Identifier(name))

\* A string or number literal; else any token at all is taken as a name
\* (str(None) for the EOF token), followed by a call or a member access.
parse_primary(ts, pos) ==
    IF current_token(ts, pos).type \in {"STRING", "NUMBER"}
    THEN Ok(next_pos(ts, pos), Literal(current_token(ts, pos).value))
    ELSE after_name(ts, next_pos(ts, pos),
                    IF current_token(ts, pos).type = "EOF" THEN "None"
                    ELSE current_token(ts, pos).value.str)

parse_comparison(ts, pos) ==
    Then(parse_primary(ts, pos), LAMBDA left :
      IF current_token(ts, left.pos).type \in RelationalOperators
      THEN Return(parse_primary(ts, next_pos(ts, left.pos)),
                  LAMBDA right : Comparison(current_token(ts, left.pos).type,
                                            left.node, right))
      ELSE left)

parse_expression(ts, pos) == parse_comparison(ts, pos)

\* One rule of a property loop: the key the value is stored under and the
\* kind of value that follows the colon.
Rule(key, value) == [key |-> key, value |-> value]

CovenantRules ==
    "INVARIANT" :> Rule("invariant", "STRING") @@
     "THRESHOLD" :> Rule("threshold", "NUMBER") @@
     "IDENTIFIER" :> Rule("", "expression")
AvatarRules ==
    "LINEAGE" :> Rule("lineage", "STRING") @@ "AURA" :> Rule("aura", "STRING") @@
     "ESSENCE" :> Rule("essence", "STRING") @@ "VESSEL" :> Rule("vessel", "expression")
SoulRules ==
    "STATE" :> Rule("state", "IDENTIFIER") @@ "DRIVE" :> Rule("drive", "STRING") @@
     "IDENTIFIER" :> Rule("", "expression")
PurposeRules ==
    "OBJECTIVE" :> Rule("objective", "STRING") @@ "ANCHOR" :> Rule("anchor", "STRING") @@
     "TRAJECTORY" :> Rule("trajectory", "STRING") @@ "IDENTIFIER" :> Rule("", "expression")
DecreeRules ==
    "CONDITION" :> Rule("condition", "expression") @@ "ACTION" :> Rule("action", "STRING") @@
     "CONSTRAINT" :> Rule("constraint", "STRING")
ProposalRules == "IDENTIFIER" :> Rule("", "expression")
ResonateRules ==
    "THRESHOLD" :> Rule("threshold", "expression") @@
     "ALIGNMENT" :> Rule("alignment", "expression") @@
     "SYNTHESIZE" :> Rule("synthesize", "synthesize")
PulseParameters == "INTERVAL" :> Rule("interval", "IDENTIFIER")

\* One entry of a Synthesize block: 'Metric : expression' or a string
parse_metric(ts, pos) ==
    IF current_token(ts, pos).type = "STRING"
    THEN Ok(next_pos(ts, pos), current_token(ts, pos).value)
    ELSE Then(expect(ts, next_pos(ts, pos), "COLON"),
              LAMBDA colon : parse_expression(ts, colon.pos))

\* The loop of parse_synthesize.
RECURSIVE synthesize_metrics(_, _, _)
synthesize_metrics(ts, pos, metrics) ==
    IF current_token(ts, pos).type \notin {"METRIC", "STRING"} THEN Ok(pos, metrics)
    ELSE Then(parse_metric(ts, pos), LAMBDA metric :
           synthesize_metrics(ts, metric.pos, Append(metrics, metric.node)))

parse_synthesize(ts, pos) ==
    Then(expects(ts, pos, <<"SYNTHESIZE", "LBRACE">>, <<>>), LAMBDA head :
      Return(ThenExpect(ts, synthesize_metrics(ts, head.pos, <<>>), "RBRACE"),
             LAMBDA metrics : [kind |-> "Synthesize", metrics |-> metrics]))

\* The value of one property: what the rule asks for after 'name :' (a
\* Synthesize block stands for itself).
parse_value(ts, pos, rule) ==
    IF rule.value = "synthesize" THEN parse_synthesize(ts, pos)
    ELSE Then(expect(ts, next_pos(ts, pos), "COLON"), LAMBDA colon :
           IF rule.value = "expression" THEN parse_expression(ts, colon.pos)
           ELSE expect(ts, colon.pos, rule.value))

\* A property loop: while the current token has a rule, read
\* 'name : value' and store it; any other token ends the loop.
RECURSIVE parse_properties(_, _, _, _)
parse_properties(ts, pos, rules, properties) ==
    IF current_token(ts, pos).type \notin DOMAIN rules THEN Ok(pos, properties)
    ELSE Then(parse_value(ts, pos, rules[current_token(ts, pos).type]), LAMBDA value :
           parse_properties(ts, value.pos, rules,
               Put(properties,
                   IF current_token(ts, pos).type = "IDENTIFIER"
                   THEN current_token(ts, pos).value.str
                   ELSE rules[current_token(ts, pos).type].key,
                   value.node)))

\* expect() the head tokens, run the property loop, expect('}'); the node
\* holds the values of the head tokens and the properties.
parse_block(ts, pos, head_types, rules) ==
    Then(expects(ts, pos, head_types, <<>>), LAMBDA head :
      Return(ThenExpect(ts, parse_properties(ts, head.pos, rules, <<>>), "RBRACE"),
             LAMBDA properties : [head |-> head.node, properties |-> properties]))

parse_covenant(ts, pos) ==
    Return(parse_block(ts, pos, <<"COVENANT", "STRING", "LBRACE">>, CovenantRules),
           LAMBDA b : [kind |-> "Covenant", name |-> b.head[2].str,
                       properties |-> b.properties])

parse_avatar(ts, pos) ==
    Return(parse_block(ts, pos, <<"AVATAR", "STRING", "LBRACE">>, AvatarRules),
           LAMBDA b : [kind |-> "Avatar", name |-> b.head[2].str,
                       properties |-> b.properties])

parse_purpose(ts, pos) ==
    Return(parse_block(ts, pos, <<"PURPOSE", "IDENTIFIER", "LBRACE">>, PurposeRules),
           LAMBDA b : [kind |-> "Purpose", name |-> b.head[2].str,
                       properties |-> b.properties])

parse_decree(ts, pos) ==
    Return(parse_block(ts, pos, <<"DECREE", "STRING", "LBRACE">>, DecreeRules),
           LAMBDA b : [kind |-> "Decree", name |-> b.head[2].str,
                       properties |-> b.properties])

parse_soul(ts, pos) ==
    Return(parse_block(ts, pos, <<"SOUL", "POTENTIALITY", "LBRACE">>, SoulRules),
           LAMBDA b : [kind |-> "Soul", properties |-> b.properties])

parse_resonate(ts, pos) ==
    Return(parse_block(ts, pos, <<"RESONATE", "LBRACE">>, ResonateRules),
           LAMBDA b : [kind |-> "Resonate", properties |-> b.properties])

\* The name of a Proposal is optional.
parse_proposal(ts, pos) ==
    IF current_token(ts, next_pos(ts, pos)).type = "STRING"
    THEN Return(parse_block(ts, pos, <<"PROPOSAL", "STRING", "LBRACE">>, ProposalRules),
                LAMBDA b : [kind |-> "Proposal", name |-> b.head[2],
                            properties |-> b.properties])
    ELSE Return(parse_block(ts, pos, <<"PROPOSAL", "LBRACE">>, ProposalRules),
                LAMBDA b : [kind |-> "Proposal", name |-> None,
                            properties |-> b.properties])

parse_watch(ts, pos) ==
    Then(expect(ts, next_pos(ts, pos), "COLON"), LAMBDA colon :
      Return(parse_expression(ts, colon.pos),
             LAMBDA target : [kind |-> "Watch", target |-> target]))

parse_execute(ts, pos) ==
    Then(expects(ts, pos, <<"EXECUTE", "COLON">>, <<>>), LAMBDA head :
      Return(parse_expression(ts, head.pos), LAMBDA action : ExecuteStatement(action)))

parse_update(ts, pos) ==
    Then(expects(ts, pos, <<"UPDATE", "COLON">>, <<>>), LAMBDA head :
      Then(parse_expression(ts, head.pos), LAMBDA target :
        IF current_token(ts, target.pos).type # "ARROW"
        THEN Ok(target.pos, UpdateStatement(target.node, None))
        ELSE Return(parse_expression(ts, next_pos(ts, target.pos)),
                    LAMBDA value : UpdateStatement(target.node, value))))

\* The generic statement of a Deliberate block: {'type': name, 'value': value}
parse_generic(ts, pos) ==
    Then(expect(ts, next_pos(ts, pos), "COLON"), LAMBDA colon :
      Return(parse_expression(ts, colon.pos),
             LAMBDA value : [kind |-> "generic",
                             type |-> current_token(ts, pos).value.str,
                             value |-> value]))

parse_intent(ts, pos) ==
    Return(expects(ts, pos, <<"INTENT", "COLON", "STRING">>, <<>>),
           LAMBDA values : [kind |-> "Intent", value |-> values[3]])

\* The loop of parse_pantheon
RECURSIVE parse_avatars(_, _, _)
parse_avatars(ts, pos, avatars) ==
    IF current_token(ts, pos).type # "AVATAR" THEN Ok(pos, avatars)
    ELSE Then(parse_avatar(ts, pos), LAMBDA avatar :
           parse_avatars(ts, avatar.pos, Append(avatars, avatar.node)))

parse_pantheon(ts, pos) ==
    Then(expects(ts, pos, <<"PANTHEON", "STRING", "LBRACE">>, <<>>), LAMBDA head :
      Return(ThenExpect(ts, parse_avatars(ts, head.pos, <<>>), "RBRACE"),
             LAMBDA avatars : [kind |-> "Pantheon", name |-> head.node[2].str,
                               avatars |-> avatars]))

\* One statement of a Deliberate block, None for a token that starts none
parse_deliberate_statement(ts, pos) ==
    IF current_token(ts, pos).type = "PROPOSAL" THEN parse_proposal(ts, pos)
    ELSE IF current_token(ts, pos).type = "SYNTHESIZE" THEN parse_synthesize(ts, pos)
    ELSE IF current_token(ts, pos).type = "IDENTIFIER" THEN parse_generic(ts, pos)
    ELSE Ok(pos, None)

\* The loop of parse_deliberate
RECURSIVE deliberate_statements(_, _, _)
deliberate_statements(ts, pos, statements) ==
    Then(parse_deliberate_statement(ts, pos), LAMBDA stmt :
      IF stmt.node = None THEN Ok(pos, statements)
      ELSE deliberate_statements(ts, stmt.pos, Append(statements, stmt.node)))

parse_deliberate(ts, pos) ==
    Then(expects(ts, pos, <<"DELIBERATE", "LBRACE">>, <<>>), LAMBDA head :
      Return(ThenExpect(ts, deliberate_statements(ts, head.pos, <<>>), "RBRACE"),
             LAMBDA statements : [kind |-> "Deliberate", statements |-> statements]))

\* One statement of a Manifest block
parse_manifest_statement(ts, pos) ==
    IF current_token(ts, pos).type = "EXECUTE" THEN parse_execute(ts, pos)
    ELSE parse_update(ts, pos)

\* The loop of parse_manifest: Execute and Update statements
RECURSIVE manifest_statements(_, _, _)
manifest_statements(ts, pos, statements) ==
    IF current_token(ts, pos).type \notin {"EXECUTE", "UPDATE"} THEN Ok(pos, statements)
    ELSE Then(parse_manifest_statement(ts, pos), LAMBDA stmt :
           manifest_statements(ts, stmt.pos, Append(statements, stmt.node)))

parse_manifest(ts, pos) ==
    Then(expects(ts, pos, <<"MANIFEST", "LPAREN", "ON">>, <<>>), LAMBDA head :
      Then(parse_expression(ts, head.pos), LAMBDA condition :
        Then(expects(ts, condition.pos, <<"RPAREN", "LBRACE">>, <<>>), LAMBDA open :
          Return(ThenExpect(ts, manifest_statements(ts, open.pos, <<>>), "RBRACE"),
                 LAMBDA statements : [kind |-> "Manifest",
                                      condition |-> condition.node,
                                      statements |-> statements]))))

\* One that takes a token that is the head of no statement for a Watch.
parse_pulse_statement_lenient(ts, pos) ==
    IF current_token(ts, pos).type \in {"RBRACE", "EOF"} THEN Ok(pos, None)
    ELSE parse_watch(ts, pos)

\* None for a token that is the head of no Pulse statement
parse_pulse_statement(ts, pos) ==
    IF current_token(ts, pos).type \in {"WATCH", "OBSERVE"} THEN parse_watch(ts, pos)
    ELSE IF current_token(ts, pos).type = "DELIBERATE" THEN parse_deliberate(ts, pos)
    ELSE IF current_token(ts, pos).type = "RESONATE" THEN parse_resonate(ts, pos)
    ELSE IF current_token(ts, pos).type = "MANIFEST" THEN parse_manifest(ts, pos)
    ELSE Ok(pos, None)

\* The statement loop of parse_pulse: a statement is appended; None (and the
\* closing brace) ends the loop.
RECURSIVE pulse_statements(_, _, _)
pulse_statements(ts, pos, statements) ==
    IF current_token(ts, pos).type = "RBRACE" THEN Ok(pos, statements)
    ELSE Then(parse_pulse_statement(ts, pos), LAMBDA stmt :
           IF stmt.node = None THEN Ok(pos, statements)
           ELSE pulse_statements(ts, stmt.pos, Append(statements, stmt.node)))

\* The optional '(Interval: name)' of a Pulse
parse_parameters(ts, pos) ==
    IF current_token(ts, pos).type = "LPAREN"
    THEN ThenExpect(ts, parse_properties(ts, next_pos(ts, pos), PulseParameters, <<>>),
                    "RPAREN")
    ELSE Ok(pos, <<>>)

parse_pulse(ts, pos) ==
    Then(expect(ts, pos, "PULSE"), LAMBDA head :
      Then(ThenExpect(ts, parse_parameters(ts, head.pos), "LBRACE"), LAMBDA parameters :
        Return(ThenExpect(ts, pulse_statements(ts, parameters.pos, <<>>), "RBRACE"),
               LAMBDA statements : [kind |-> "Pulse", parameters |-> parameters.node,
                                    statements |-> statements])))

\* One part of a Domain body, None for a token that starts none
parse_domain_item(ts, pos) ==
    IF current_token(ts, pos).type = "SOUL" THEN parse_soul(ts, pos)
    ELSE IF current_token(ts, pos).type = "PURPOSE" THEN parse_purpose(ts, pos)
    ELSE IF current_token(ts, pos).type = "INTENT" THEN parse_intent(ts, pos)
    ELSE IF current_token(ts, pos).type = "PANTHEON" THEN parse_pantheon(ts, pos)
    ELSE IF current_token(ts, pos).type = "PULSE" THEN parse_pulse(ts, pos)
    ELSE Ok(pos, None)

\* The loop of parse_domain
RECURSIVE domain_items(_, _, _)
domain_items(ts, pos, items) ==
    Then(parse_domain_item(ts, pos), LAMBDA item :
      IF item.node = None THEN Ok(pos, items)
      ELSE domain_items(ts, item.pos, Append(items, item.node)))

\* The last node of a kind among the items of a Domain body, None without one
\* (soul, purpose, intent and pantheon are overwritten; pulses are appended).
last_item(items, kind) ==
    IF {i \in 1..Len(items) : items[i].kind = kind} = {} THEN None
    ELSE items[Max({i \in 1..Len(items) : items[i].kind = kind})]

parse_domain(ts, pos) ==
    Then(expects(ts, pos, <<"DOMAIN", "STRING", "LBRACE">>, <<>>), LAMBDA head :
      Return(ThenExpect(ts, domain_items(ts, head.pos, <<>>), "RBRACE"),
             LAMBDA items :
                [kind |-> "Domain", name |-> head.node[2].str,
                 soul |-> last_item(items, "Soul"),
                 purpose |-> last_item(items, "Purpose"),
                 intent |-> last_item(items, "Intent"),
                 pantheon |-> last_item(items, "Pantheon"),
                 pulses |-> SelectSeq(items, LAMBDA n : n.kind = "Pulse")]))

parse_declaration(ts, pos) ==
    IF current_token(ts, pos).type = "COVENANT" THEN parse_covenant(ts, pos)
    ELSE IF current_token(ts, pos).type = "PANTHEON" THEN parse_pantheon(ts, pos)
    ELSE IF current_token(ts, pos).type = "DOMAIN" THEN parse_domain(ts, pos)
    ELSE IF current_token(ts, pos).type = "DECREE" THEN parse_decree(ts, pos)
    ELSE Raised(pos, Unexpected(current_token(ts, pos)))

\* The loop of parse(): declarations up to the EOF token
RECURSIVE parse_declarations(_, _, _)
parse_declarations(ts, pos, declarations) ==
    IF current_token(ts, pos).type = "EOF" THEN Ok(pos, declarations)
    ELSE Then(parse_declaration(ts, pos), LAMBDA decl :
           parse_declarations(ts, decl.pos, Append(declarations, decl.node)))

Program(declarations) == [kind |-> "Program", declarations |-> declarations]

\* Parser(tokens).parse(): the node of an "ok" result is the Program
parse(ts) ==
    Return(parse_declarations(ts, 0, <<>>), LAMBDA declarations : Program(declarations))

-----------------------------------------------------------------------------
(* One Parser object and its parse() call *)

MaxArguments == 2    \* iterations counted once parse() is looping

\* The value the Lexer gives a token of each type: a Python str, a number
\* or None (a keyword or a punctuation token carries its own text, written
\* here as its type).
TokenValue(type) ==
    CASE type = "STRING" -> Str("s")
      [] type = "NUMBER" -> Num(1)
      [] type = "IDENTIFIER" -> Str("x")
      [] type = "EOF" -> None
      [] OTHER -> Str(type)

\* The token list of a source text whose tokens have the given types and
\* stand on one line each; the EOF token stands on the line after the last.
Layout(types) ==
    [i \in 1..(Len(types) + 1) |->
        IF i <= Len(types) THEN Token(types[i], TokenValue(types[i]), i, 1)
        ELSE Token("EOF", None, i, 1)]

\* Well-formed programs, as the types of their tokens.
Watcher ==
    <<"DOMAIN", "STRING", "LBRACE", "PULSE", "LBRACE",
      "WATCH", "COLON", "IDENTIFIER", "RBRACE", "RBRACE">>
Caller ==
    <<"COVENANT", "STRING", "LBRACE", "IDENTIFIER", "COLON", "IDENTIFIER",
      "LPAREN", "NUMBER", "COMMA", "STRING", "RPAREN", "RBRACE">>
Council ==
    <<"PANTHEON", "STRING", "LBRACE", "AVATAR", "STRING", "LBRACE",
      "LINEAGE", "COLON", "STRING", "VESSEL", "COLON", "IDENTIFIER", "DOT",
      "IDENTIFIER", "RBRACE", "RBRACE">>
Law ==
    <<"DECREE", "STRING", "LBRACE", "CONDITION", "COLON", "IDENTIFIER",
      "ACTION", "COLON", "STRING", "RBRACE">>
Manifesting ==
    <<"DOMAIN", "STRING", "LBRACE", "PULSE", "LPAREN", "INTERVAL", "COLON",
      "IDENTIFIER", "RPAREN", "LBRACE", "WATCH", "COLON", "IDENTIFIER",
      "RESONATE", "LBRACE", "THRESHOLD", "COLON", "NUMBER", "RBRACE",
      "MANIFEST", "LPAREN", "ON", "IDENTIFIER", "GT", "NUMBER", "RPAREN", "LBRACE",
      "EXECUTE", "COLON", "IDENTIFIER", "DOT", "IDENTIFIER", "LPAREN", "STRING",
      "RPAREN", "UPDATE", "COLON", "POTENTIALITY", "DOT", "STATE", "ARROW",
      "STRING", "RBRACE", "RBRACE", "RBRACE">>
Being ==
    <<"DOMAIN", "STRING", "LBRACE", "SOUL", "POTENTIALITY", "LBRACE", "STATE",
      "COLON", "IDENTIFIER", "RBRACE", "PURPOSE", "IDENTIFIER", "LBRACE",
      "OBJECTIVE", "COLON", "STRING", "RBRACE", "INTENT", "COLON", "STRING",
      "PULSE", "LBRACE", "DELIBERATE", "LBRACE", "PROPOSAL", "STRING", "LBRACE",
      "IDENTIFIER", "COLON", "NUMBER", "RBRACE", "SYNTHESIZE", "LBRACE",
      "METRIC", "COLON", "IDENTIFIER", "RBRACE", "RBRACE", "RBRACE", "RBRACE">>

WellFormed == {Watcher, Caller, Council, Law, Manifesting, Being, Watcher \o Law}

\* Types put in the place of, or before, a token of a well-formed program.
EditTypes ==
    {"IDENTIFIER", "STRING", "LBRACE", "RBRACE", "LPAREN", "RPAREN", "COLON",
     "COMMA", "WATCH", "EXECUTE", "PULSE", "DOMAIN"}

Truncate(types, k) == SubSeq(types, 1, k)
Delete(types, k) == SubSeq(types, 1, k - 1) \o SubSeq(types, k + 1, Len(types))
Insert(types, k, type) ==
    SubSeq(types, 1, k - 1) \o <<type>> \o SubSeq(types, k, Len(types))
Replace(types, k, type) == [types EXCEPT ![k] = type]

\* Every well-formed program, cut short, or with one token left out, put in
\* or exchanged.
ParserInputs ==
    UNION { {Truncate(b, k) : k \in 0..Len(b)}
            \cup {Delete(b, k) : k \in 1..Len(b)}
            \cup {Insert(b, k, t) : k \in 1..Len(b), t \in EditTypes}
            \cup {Replace(b, k, t) : k \in 1..Len(b), t \in EditTypes}
          : b \in WellFormed }

\* Parser(tokens)
InitParser ==
    /\ ResonanceIdle
    /\ RuntimeIdle
    /\ InterpreterIdle
    /\ AdapterIdle
    /\ LexerIdle
    /\ parse_tokens \in {Layout(types) : types \in ParserInputs}
    /\ parse_pc = "call"
    /\ parse_out = [pos |-> 0, program |-> None, error |-> None, arguments |-> 0]

\* parser.parse(), up to its return, its raise, or the loop it does not leave
Parse ==
    /\ parse_pc = "call"
    /\ LET r == parse(parse_tokens)
       IN  /\ parse_pc' = CASE r.status = "ok" -> "returned"
                            [] r.status = "raised" -> "raised"
                            [] r.status = "looping" -> "looping"
           /\ parse_out' = [pos |-> r.pos, program |-> r.node, error |-> r.error,
                            arguments |-> 0]
    /\ UNCHANGED parse_tokens
    /\ UNCHANGED <<rvars, ivars, avars, lvars, tvars>>

\* One more iteration of the argument loop at the EOF token: parse_expression
\* returns Identifier('None'), which is appended, and pos stays.
AppendArgument ==
    /\ parse_pc = "looping"
    /\ parse_out.arguments < MaxArguments
    /\ LET e == parse_expression(parse_tokens, parse_out.pos)
       IN  /\ e.status = "ok"
           /\ current_token(parse_tokens, e.pos).type \notin {"COMMA", "RPAREN"}
           /\ parse_out' = [parse_out EXCEPT !.pos = e.pos, !.arguments = @ + 1]
    /\ UNCHANGED <<parse_tokens, parse_pc>>
    /\ UNCHANGED <<rvars, ivars, avars, lvars, tvars>>

NextParser ==
    \/ Parse
    \/ AppendArgument

SpecParser == InitParser /\ [][NextParser]_vars

-----------------------------------------------------------------------------
(* Properties of Parser.parse                                                *)

\* The types of the tokens before EOF
TypesOf(ts) == [i \in 1..(Len(ts) - 1) |-> ts[i].type]

\* The call has ended in one of the two ways a call can end.
ParseEnded == parse_pc \in {"returned", "raised"}

\* The error of a raised call is about the token the Parser stands at.
ErrorNamesCurrentToken ==
    /\ parse_out.error.type = "SyntaxError"
    /\ parse_out.error.got = current_token(parse_tokens, parse_out.pos).type
    /\ parse_out.error.line = current_token(parse_tokens, parse_out.pos).line
    /\ parse_out.error.column = current_token(parse_tokens, parse_out.pos).column
    /\ parse_out.error.expected # parse_out.error.got

\* Nothing before the token of the error is a mismatch: the tokens before it,
\* taken as a program of their own, are parsed up to their end.
NoEarlierMismatch ==
    LET before == parse(Layout(SubSeq(TypesOf(parse_tokens), 1, parse_out.pos)))
    IN  before.status = "raised" => before.pos = parse_out.pos

\* The tokens are a program but for the closing brace of its last
\* declaration, a Domain.
DomainBraceMissing ==
    LET closed == parse(Layout(Append(TypesOf(parse_tokens), "RBRACE")))
    IN  /\ closed.status = "ok"
        /\ closed.node.declarations # <<>>
        /\ closed.node.declarations[Len(closed.node.declarations)].kind = "Domain"

\* The error is 'Expected }, got EOF' at the line of the EOF token.
ErrorAtEOFLine ==
    /\ parse_pc = "raised"
    /\ parse_out.error.expected = "RBRACE"
    /\ parse_out.error.got = "EOF"
    /\ parse_out.error.line = parse_tokens[Len(parse_tokens)].line

\* What a call that raised has done: no Program, an error about the first
\* mismatch, and for a Domain without its closing brace the line of EOF.
FatalErrorAtFirstMismatch ==
    /\ parse_pc = "raised" =>
          /\ parse_out.program = None
          /\ ErrorNamesCurrentToken
          /\ NoEarlierMismatch
    /\ parse_pc = "returned" =>
          /\ parse_out.program.kind = "Program"
          /\ parse_out.error = None
    /\ (parse_pc # "call" /\ DomainBraceMissing) => ErrorAtEOFLine

\* A Domain without its closing brace has been parsed.
DomainBraceMissingRaised ==
    /\ parse_tokens = Layout(Truncate(Watcher, Len(Watcher) - 1))
    /\ DomainBraceMissing
    /\ parse_pc = "raised"
    /\ parse_out.error = Expected("RBRACE", Token("EOF", None, Len(Watcher), 1))

\* C18: parse() stops at the first structural mismatch by raising a fatal
\* error and returns no Program in that case: a call either returns a Program
\* or raises an error about the first token that does not fit; for a Domain
\* whose closing brace is missing the error carries the line of the EOF token.
C18_StopsAtFirstMismatchWithFatalError ==
    parse_pc # "call" => (ParseEnded /\ FatalErrorAtFirstMismatch)

\* The loop of parse_function_call is left only at a ')': at the EOF token
\* parse_expression returns without moving, so the loop goes on.
LoopsOnlyAtEOF ==
    parse_pc = "looping" =>
        /\ current_token(parse_tokens, parse_out.pos).type = "EOF"
        /\ parse_out.program = None
        /\ parse_out.error = None

\* C19: parse() terminates on every token list that ends with EOF: it returns
\* a Program or raises, also when the input ends inside the argument list of
\* a function call that is not closed.
C19_ParseTerminates == parse_pc # "call" => ParseEnded

\* A Domain whose first part is a Pulse without parameters, whose body is
\* k Watch statements followed by a token at position at.
PulseBodyEndsAt(k, at) ==
    /\ Len(parse_tokens) > at
    /\ SubSeq(TypesOf(parse_tokens), 1, at)
         = <<"DOMAIN", "STRING", "LBRACE", "PULSE", "LBRACE">>
           \o [i \in 1..(3 * k) |-> <<"WATCH", "COLON", "IDENTIFIER">>[((i - 1) % 3) + 1]]

StatementHeads == {"WATCH", "OBSERVE", "DELIBERATE", "RESONATE", "MANIFEST"}
\* Tokens that go on with the expression of a Watch
ExpressionTails == RelationalOperators \cup {"LPAREN", "DOT"}

\* The token after k Watch statements is the head of no statement (and no part
\* of the last Watch).
UnknownHeadAfter(k) ==
    /\ PulseBodyEndsAt(k, 5 + 3 * k)
    /\ current_token(parse_tokens, 5 + 3 * k).type
         \notin StatementHeads \cup ExpressionTails

WatchX == [kind |-> "Watch", target |-> Identifier("x")]

\* C20 as stated: a token that is the head of no statement ends the statement
\* list of a Pulse without any error being raised, and parsing continues.
C20_UnknownHeadEndsListWithoutError ==
    \A k \in 0..Len(parse_tokens) :
        (parse_pc # "call" /\ UnknownHeadAfter(k)) =>
            ~(parse_pc = "raised" /\ parse_out.pos = 5 + 3 * k)

\* C20: a token that is the head of no statement ends the statement list of
\* a Pulse, and the closing brace is expected in its place: for '}' the Pulse
\* keeps the statements parsed so far, for any other token parse() raises
\* 'Expected }, got <token>' at that token and returns no Program.
C20_UnknownHeadEndsListAndBraceIsExpected ==
    \A k \in 0..Len(parse_tokens) :
        (parse_pc # "call" /\ UnknownHeadAfter(k)) =>
            LET token == current_token(parse_tokens, 5 + 3 * k)
            IN  IF token.type = "RBRACE"
                THEN parse_pc = "returned" =>
                        parse_out.program.declarations[1].pulses[1].statements
                            = [i \in 1..k |-> WatchX]
                ELSE /\ parse_pc = "raised"
                     /\ parse_out.pos = 5 + 3 * k
                     /\ parse_out.error = Expected("RBRACE", token)
                     /\ parse_out.program = None

\* An identifier after a Watch statement has ended the statement list.
C20_Witness ==
    /\ parse_tokens = Layout(Insert(Watcher, Len(Watcher) - 1, "IDENTIFIER"))
    /\ UnknownHeadAfter(1)
    /\ parse_pc = "raised"
    /\ parse_out.error = Expected("RBRACE", Token("IDENTIFIER", Str("x"), Len(Watcher) - 1, 1))

\* The statement list of a Pulse has ended at '}' and its statement is kept.
StatementsKeptAtBrace ==
    /\ parse_tokens = Layout(Watcher)
    /\ UnknownHeadAfter(1)
    /\ parse_pc = "returned"
    /\ parse_out.program.declarations[1].pulses[1].statements = <<WatchX>>

-----------------------------------------------------------------------------
(* Free-form properties                                                      *)

\* The tokens a block starts with, up to its '{'
BlockHead(block) ==
    CASE block = "Covenant" -> <<"COVENANT", "STRING", "LBRACE">>
      [] block = "Avatar" -> <<"AVATAR", "STRING", "LBRACE">>
      [] block = "Soul" -> <<"SOUL", "POTENTIALITY", "LBRACE">>
      [] block = "Purpose" -> <<"PURPOSE", "IDENTIFIER", "LBRACE">>
      [] block = "Resonate" -> <<"RESONATE", "LBRACE">>

\* The method that parses a block
parse_block_of(block, ts, pos) ==
    CASE block = "Covenant" -> parse_covenant(ts, pos)
      [] block = "Avatar" -> parse_avatar(ts, pos)
      [] block = "Soul" -> parse_soul(ts, pos)
      [] block = "Purpose" -> parse_purpose(ts, pos)
      [] block = "Resonate" -> parse_resonate(ts, pos)

\* A block starts at pos and its first property is 'identifier : ...'
GenericPropertyIn(block, pos) ==
    LET head == BlockHead(block)
    IN  /\ pos + Len(head) + 2 < Len(parse_tokens)
        /\ SubSeq(TypesOf(parse_tokens), pos + 1, pos + Len(head) + 2)
             = head \o <<"IDENTIFIER", "COLON">>

\* The identifier is taken for a property name and its expression is kept in
\* the properties of the node under that name.
GenericPropertyKept(block, pos) ==
    LET at == pos + Len(BlockHead(block))
        name == current_token(parse_tokens, at).value.str
        r == parse_block_of(block, parse_tokens, pos)
    IN  /\ ~(r.status = "raised" /\ r.pos = at)
        /\ ~(parse_pc = "raised" /\ parse_out.pos = at)
        /\ r.status = "ok" =>
              /\ name \in Keys(r.node.properties)
              /\ Get(r.node.properties, name)
                   = parse_expression(parse_tokens, at + 2).node

\* C21: in each of the Covenant, Avatar, Soul, Purpose and Resonate blocks a
\* property whose name is an IDENTIFIER token is accepted as a free-form
\* 'identifier : expression' property and kept in the node's properties under
\* that name.
C21_GenericPropertyAcceptedInEveryBlock ==
    \A block \in {"Covenant", "Avatar", "Soul", "Purpose", "Resonate"} :
        \A pos \in 0..Len(parse_tokens) :
            (parse_pc # "call" /\ GenericPropertyIn(block, pos))
                => GenericPropertyKept(block, pos)

\* The same for the Covenant, Soul and Purpose blocks alone.
GenericPropertyAcceptedWhereParsed ==
    \A block \in {"Covenant", "Soul", "Purpose"} :
        \A pos \in 0..Len(parse_tokens) :
            (parse_pc # "call" /\ GenericPropertyIn(block, pos))
                => GenericPropertyKept(block, pos)

\* In the Avatar and Resonate blocks an IDENTIFIER ends the properties, and
\* the closing brace is expected in its place.
GenericPropertyRefused ==
    \A block \in {"Avatar", "Resonate"} :
        \A pos \in 0..Len(parse_tokens) :
            GenericPropertyIn(block, pos) =>
                LET at == pos + Len(BlockHead(block))
                    r == parse_block_of(block, parse_tokens, pos)
                IN  /\ r.status = "raised"
                    /\ r.error = Expected("RBRACE", current_token(parse_tokens, at))

\* A Soul with a free-form property has been parsed.
GenericPropertyOfSoul ==
    /\ parse_tokens = Layout(Replace(Being, 7, "IDENTIFIER"))
    /\ GenericPropertyIn("Soul", 3)
    /\ parse_pc = "returned"
    /\ Get(parse_out.program.declarations[1].soul.properties, "x") = Identifier("x")

\* An Avatar with a free-form property has been refused.
GenericPropertyOfAvatar ==
    /\ parse_tokens = Layout(Replace(Council, 7, "IDENTIFIER"))
    /\ GenericPropertyIn("Avatar", 3)
    /\ parse_pc = "raised"
    /\ parse_out.error = Expected("RBRACE", Token("IDENTIFIER", Str("x"), 7, 1))

-----------------------------------------------------------------------------
(* Runtime environment (src/src/genesis_runtime.py).  A GenesisRuntime holds *)
(* the programs loaded under their program_id and one interpreter for each;  *)
(* load_program() runs the Lexer and the Parser on a source text, start()    *)
(* hands a loaded Program to its interpreter's execute().  A program_id is   *)
(* a str value or None.  A call of initialize(), load_program(), pause(),    *)
(* resume() or stop() is one step; a start() that executes is its entry,     *)
(* the steps of execute() above, and its return, and no other call begins    *)
(* before it has returned.                                                   *)

\* The characters of a Python str
characters(source) == [i \in 1..Len(source) |-> SubSeq(source, i, i)]

\* dict.get(name)
Lookup(dict, name) == IF name \in Keys(dict) THEN Get(dict, name) ELSE None

\* float(num_str) in hundredths, for a num_str of at most two decimals
Hundredths(digits) ==
    LET dot == CHOOSE i \in 1..Len(digits) : digits[i] = "."
        decimals == SubSeq(digits, dot + 1, Len(digits)) \o <<"0", "0">>
    IN  100 * int(SubSeq(digits, 1, dot - 1))
        + 10 * DigitValue(decimals[1]) + DigitValue(decimals[2])

\* The value of a token the Lexer made, as the Parser above reads it: a str
\* is a string, a number is counted in hundredths.
python_value(token) ==
    IF token.type = "EOF" THEN None
    ELSE IF token.type # "NUMBER" THEN Str(join(token.value))
    ELSE IF "float" \in DOMAIN token.value THEN Num(Hundredths(token.value.float))
    ELSE Num(100 * token.value.int)

\* Parser(tokens)
parser_tokens(tokens) ==
    [i \in 1..Len(tokens) |-> [tokens[i] EXCEPT !.value = python_value(tokens[i])]]

\* What the interpreter reads of a statement node: the kind, a Resonate's
\* properties.get('threshold'), a Manifest's statements.
statement_read(node) ==
    IF node.kind = "Resonate"
    THEN ResonateBlock(Lookup(node.properties, "threshold"))
    ELSE IF node.kind = "Manifest" THEN ManifestBlock(node.statements)
    ELSE [kind |-> node.kind]

pulse_read(node) ==
    PulseDefinition([i \in 1..Len(node.statements) |-> statement_read(node.statements[i])])

\* The names of declaration.avatars
pantheon_read(node) ==
    PantheonDeclaration(node.name, [i \in 1..Len(node.avatars) |-> node.avatars[i].name])

\* What the interpreter reads of a declaration: a Covenant's
\* properties['threshold'], a Soul's properties['state']; this Parser gives
\* a Domain no Possibility context.
declaration_read(node) ==
    IF node.kind = "Covenant"
    THEN CovenantDeclaration(node.name, Lookup(node.properties, "threshold"))
    ELSE IF node.kind = "Pantheon" THEN pantheon_read(node)
    ELSE IF node.kind = "Domain"
    THEN DomainDeclaration(node.name, None,
             IF node.pantheon = None THEN None ELSE pantheon_read(node.pantheon),
             IF node.soul = None THEN None
             ELSE [state |-> Lookup(node.soul.properties, "state")],
             [i \in 1..Len(node.pulses) |-> pulse_read(node.pulses[i])])
    ELSE DecreeDeclaration(node.name)

\* program.declarations, as execute() walks them
declarations_read(node) ==
    [i \in 1..Len(node.declarations) |-> declaration_read(node.declarations[i])]

\* The try block of load_program up to 'ast = parser.parse()': "ok" with the
\* Program, "raised" when tokenize() or parse() raised, "looping" when
\* parse() does not return.
compile(source) ==
    LET lx == tokenize(characters(source), Lexer)
    IN  IF lx.error # None THEN [status |-> "raised", program |-> None]
        ELSE LET r == parse(parser_tokens(lx.tokens))
             IN  [status |-> r.status,
                  program |-> IF r.status = "ok" THEN declarations_read(r.node)
                              ELSE None]

\* Source texts: three that are well formed, one with a Resonate threshold
\* that is a string, one with a character that starts no token, one with a
\* brace missing, and one that ends inside an argument list.
Hello ==
    "Pantheon \"P\" {Avatar \"Sage\" {}}\n" \o
    "Domain \"A\" {Pulse {Manifest (on x) {Update: Potentiality.State -> \"Dreaming\"}}}"
TwoDomains ==
    "Domain \"A\" {Pulse {Manifest (on x) {}}}\n" \o
    "Domain \"B\" {Pantheon \"P\" {Avatar \"Muse\" {}}}"
Watching == "Domain \"A\" {Pulse {Watch: x Deliberate {}}}"
StringThreshold ==
    "Domain \"A\" {Pulse {Resonate {Threshold: f(\"high\")} Manifest (on x) {}}}"
BadCharacter == "Domain \"A\" @"
MissingBrace == "Domain \"A\" {Pulse}"
OpenCall == "Covenant \"K\" {x: f("

Sources ==
    {Hello, TwoDomains, Watching, StringThreshold, BadCharacter, MissingBrace, OpenCall}

Compiled == [source \in Sources |-> compile(source)]

\* RuntimeState
RuntimeState ==
    {"UNINITIALIZED", "INITIALIZING", "READY", "RUNNING", "PAUSED", "STOPPING",
     "STOPPED", "ERROR"}

\* GenesisInterpreter() with the compliance manager load_program injects
\* (0 for none).  runs is history: what each execute() call on this
\* interpreter left behind.
GenesisInterpreter(compliance) ==
    [covenants |-> <<>>, pantheons |-> <<>>, domains |-> <<>>,
     active_context |-> None, potentiality |-> "Unmanifested",
     tools |-> builtin_tools, compliance_manager |-> compliance, runs |-> <<>>]

\* A try block that forgets the program_id when the source is rejected.
register_or_forget(dict, program_id, status, value) ==
    IF status = "ok" THEN Put(dict, program_id.str, value)
    ELSE SelectSeq(dict, LAMBDA entry : entry.name # program_id.str)

\* load_program: self.programs[program_id] = ... / self.interpreters[program_id]
\* = ... are reached only when tokenize() and parse() returned.
register(dict, program_id, status, value) ==
    IF status = "ok" THEN Put(dict, program_id.str, value) ELSE dict

\* A start() that takes every state.
can_start_in_any(state) == TRUE

\* start(): self.state in (RuntimeState.READY, RuntimeState.PAUSED)
can_start(state) == state \in {"READY", "PAUSED"}

\* start(): the program_id to execute, None when there is none: the first
\* key of self.programs for program_id None, else program_id when loaded
chosen_program(dict, program_id) ==
    IF program_id = None
    THEN IF dict = <<>> THEN None ELSE Str(dict[1].name)
    ELSE IF program_id.str \in Keys(dict) THEN program_id ELSE None

\* A start() that leaves the state RUNNING when execute() returned.
state_left_running(raised) == IF raised THEN "ERROR" ELSE "RUNNING"

\* start(): self.state after interpreter.execute(program)
state_after_execute(raised) == IF raised THEN "ERROR" ELSE "READY"

\* A cleanup that releases nothing.
cleanup_nothing(dict) == dict

\* _cleanup_resources: dict.clear()
cleanup_resources(dict) == <<>>

-----------------------------------------------------------------------------
(* One GenesisRuntime object and the calls made on it *)

MaxRuntimeCalls == 4   \* calls made on the runtime
ProgramIds == {Str("a"), Str("b")}

\* The record of a call: source is "" for a call that takes none, result is
\* "pending" until the call has returned.  after_stop is {} until a stop()
\* has returned, then "stop" and the calls since: initialize(), and
\* load_program() when it returned True.
Call(op, program_id, source, result, after_stop) ==
    [op |-> op, program_id |-> program_id, source |-> source, result |-> result,
     after_stop |-> after_stop]

\* What a call returned
Returned(value) == IF value THEN "True" ELSE "False"

AfterStop == IF last_call = None THEN {} ELSE last_call.after_stop

Since(op) == IF "stop" \in AfterStop THEN AfterStop \cup {op} ELSE {}

\* A call begins: no other call is in progress.
Called ==
    /\ runtime_pc = "idle"
    /\ calls_made < MaxRuntimeCalls
    /\ calls_made' = calls_made + 1

\* GenesisRuntime(config)
InitRuntime ==
    /\ ResonanceIdle
    /\ InterpreterIdle
    /\ AdapterIdle
    /\ LexerIdle
    /\ ParserIdle
    /\ config \in {[compliance |-> TRUE], [compliance |-> FALSE]}
    /\ runtime_state = "UNINITIALIZED"
    /\ programs = <<>> /\ interpreters = <<>>
    /\ error_state = None /\ active_program_id = None
    /\ runtime_manager = 0 /\ audit_trails = <<>>
    /\ runtime_pc = "idle"
    /\ calls_made = 0
    /\ last_call = None

\* initialize().  With a compliance framework enabled _initialize_compliance
\* creates the ComplianceManager and then calls add_context_documentation,
\* which ComplianceManager does not have: the AttributeError is caught.
Initialize ==
    /\ Called
    /\ IF config.compliance
       THEN /\ runtime_manager' = Len(audit_trails) + 1
            /\ audit_trails' = Append(audit_trails, <<>>)
            /\ runtime_state' = "ERROR"
            /\ error_state' = Str("AttributeError")
       ELSE /\ runtime_state' = "READY"
            /\ UNCHANGED <<runtime_manager, audit_trails, error_state>>
    /\ last_call' = Call("initialize", None, "", Returned(~config.compliance),
                       Since("initialize"))
    /\ UNCHANGED <<config, programs, interpreters, active_program_id, runtime_pc>>
    /\ UNCHANGED <<rvars, ivars, avars, lvars, pvars>>

\* What becomes of a load_program whose parse() is in a loop that appends
\* without end: MemoryError is raised once memory is exhausted, or the call
\* never returns.
Ends(status) == IF status = "looping" THEN {"raised", "looping"} ELSE {status}

\* load_program(source, program_id)
LoadProgram ==
    /\ Called
    /\ \E program_id \in ProgramIds, source \in Sources :
         \E status \in Ends(Compiled[source].status) :
            /\ programs' = register(programs, program_id, status, Compiled[source].program)
            /\ interpreters' = register(interpreters, program_id, status,
                                        GenesisInterpreter(runtime_manager))
            /\ runtime_pc' = IF status = "looping" THEN "looping" ELSE "idle"
            /\ last_call' = Call("load_program", program_id, source,
                                 IF status = "looping" THEN "pending"
                                 ELSE Returned(status = "ok"),
                                 IF status = "ok" THEN Since("load_program") ELSE AfterStop)
    /\ UNCHANGED <<config, runtime_state, error_state, active_program_id,
                   runtime_manager, audit_trails>>
    /\ UNCHANGED <<rvars, ivars, avars, lvars, pvars>>

\* start(program_id) up to the entry of interpreter.execute(program), or up
\* to 'return False'.  execute() runs on the fields of the interpreter of
\* the program.
Start ==
    /\ Called
    /\ \E program_id \in ProgramIds \cup {None} :
         LET chosen == chosen_program(programs, program_id)
         IN  IF ~can_start(runtime_state) \/ chosen = None
             THEN /\ last_call' = Call("start", program_id, "", "False", AfterStop)
                  /\ UNCHANGED <<runtime_state, active_program_id, runtime_pc, ivars>>
             ELSE LET interpreter == Get(interpreters, chosen.str)
                      m == interpreter.compliance_manager
                  IN  /\ runtime_state' = "RUNNING"
                      /\ active_program_id' = chosen
                      /\ runtime_pc' = "executing"
                      /\ last_call' = Call("start", program_id, "", "pending", AfterStop)
                      /\ program' = Get(programs, chosen.str)
                      /\ pc' = IF program' = <<>> THEN to_domain(1, interpreter.domains)
                               ELSE "declare"
                      /\ decl_i' = 1 /\ dom_i' = 1 /\ pulse_i' = 0 /\ stmt_i' = 0
                      /\ covenants' = interpreter.covenants
                      /\ pantheons' = interpreter.pantheons
                      /\ domains' = interpreter.domains
                      /\ active_context' = interpreter.active_context
                      /\ potentiality' = interpreter.potentiality
                      /\ context' = None
                      /\ tools' = interpreter.tools
                      /\ trace' = <<>> /\ evals' = <<>> /\ tool_calls' = <<>>
                      /\ compliance_manager' = (m # 0)
                      /\ audit_trail' = IF m # 0 THEN audit_trails[m] ELSE <<>>
    /\ UNCHANGED <<config, programs, interpreters, error_state, runtime_manager,
                   audit_trails>>
    /\ UNCHANGED <<rvars, avars, lvars, pvars>>

\* What one execute() call left behind.
Run ==
    [ended |-> pc, evals |-> evals, trace |-> trace,
     covenants |-> covenants, pantheons |-> pantheons, domains |-> domains]

\* start() from the return of interpreter.execute(program), or from the
\* exception it raised, to its own return.  The interpreter keeps its fields.
StartReturns ==
    /\ runtime_pc = "executing"
    /\ pc \in {"done", "raised"}
    /\ LET interpreter == Get(interpreters, active_program_id.str)
           m == interpreter.compliance_manager
       IN  /\ interpreters' =
                Put(interpreters, active_program_id.str,
                    [interpreter EXCEPT !.covenants = covenants,
                                        !.pantheons = pantheons,
                                        !.domains = domains,
                                        !.active_context = active_context,
                                        !.potentiality = potentiality,
                                        !.tools = tools,
                                        !.runs = Append(@, Run)])
           /\ audit_trails' = IF m # 0 THEN [audit_trails EXCEPT ![m] = audit_trail]
                              ELSE audit_trails
    /\ runtime_state' = state_after_execute(pc = "raised")
    /\ error_state' = IF pc = "raised" THEN Str("TypeError") ELSE error_state
    /\ last_call' = [last_call EXCEPT !.result = Returned(pc = "done")]
    /\ runtime_pc' = "idle"
    /\ program' = <<>> /\ pc' = "off"
    /\ decl_i' = 0 /\ dom_i' = 0 /\ pulse_i' = 0 /\ stmt_i' = 0
    /\ covenants' = <<>> /\ pantheons' = <<>> /\ domains' = <<>>
    /\ active_context' = None
    /\ potentiality' = "Unmanifested"
    /\ context' = None
    /\ tools' = builtin_tools
    /\ trace' = <<>> /\ evals' = <<>> /\ tool_calls' = <<>>
    /\ compliance_manager' = FALSE /\ audit_trail' = <<>>
    /\ UNCHANGED <<config, programs, active_program_id, runtime_manager, calls_made>>
    /\ UNCHANGED <<rvars, avars, lvars, pvars>>

\* pause()
Pause ==
    /\ Called
    /\ runtime_state' = IF runtime_state # "RUNNING" THEN runtime_state ELSE "PAUSED"
    /\ last_call' = Call("pause", None, "", Returned(runtime_state = "RUNNING"), AfterStop)
    /\ UNCHANGED <<config, programs, interpreters, error_state, active_program_id,
                   runtime_manager, audit_trails, runtime_pc>>
    /\ UNCHANGED <<rvars, ivars, avars, lvars, pvars>>

\* resume()
Resume ==
    /\ Called
    /\ runtime_state' = IF runtime_state # "PAUSED" THEN runtime_state ELSE "RUNNING"
    /\ last_call' = Call("resume", None, "", Returned(runtime_state = "PAUSED"), AfterStop)
    /\ UNCHANGED <<config, programs, interpreters, error_state, active_program_id,
                   runtime_manager, audit_trails, runtime_pc>>
    /\ UNCHANGED <<rvars, ivars, avars, lvars, pvars>>

\* stop(graceful): the report is printed, _cleanup_resources clears both dicts
Stop ==
    /\ Called
    /\ programs' = cleanup_resources(programs)
    /\ interpreters' = cleanup_resources(interpreters)
    /\ runtime_state' = "STOPPED"
    /\ last_call' = Call("stop", None, "", "True", {"stop"})
    /\ UNCHANGED <<config, error_state, active_program_id, runtime_manager,
                   audit_trails, runtime_pc>>
    /\ UNCHANGED <<rvars, ivars, avars, lvars, pvars>>

NextRuntime ==
    \/ Initialize
    \/ LoadProgram
    \/ Start
    \/ StartReturns
    \/ Pause
    \/ Resume
    \/ Stop
    \/ ProcessDeclaration
    \/ ExecuteDomain
    \/ ExecuteWatch
    \/ ExecuteDeliberate
    \/ ExecuteResonate
    \/ ExecuteManifest

SpecRuntime == InitRuntime /\ [][NextRuntime]_vars

-----------------------------------------------------------------------------
(* Properties of the runtime environment *)

\* A call has just begun (and, unless it is an executing start() or a
\* load_program() that does not return, has returned).
NewCall(op) == calls_made' # calls_made /\ last_call'.op = op

\* C22: a load_program() whose source does not lex or parse returns False
\* and changes nothing: the programs and interpreters maps (an entry stored
\* under the same program_id included) and the runtime state are as before,
\* no interpreter field is touched and no execution is begun.
C22_RejectedLoadChangesNothing ==
    [][(/\ NewCall("load_program")
        /\ Compiled[last_call'.source].status # "ok"
        /\ last_call'.result # "pending")
       => (/\ last_call'.result = "False"
           /\ runtime_pc' = "idle"
           /\ UNCHANGED <<programs, interpreters, runtime_state, error_state>>
           /\ UNCHANGED ivars)]_vars

\* A source with a LexError or a ParseError was rejected under a program_id
\* that holds a program loaded before.
C22_Witness ==
    /\ last_call # None
    /\ last_call.op = "load_program"
    /\ last_call.source \in {BadCharacter, MissingBrace}
    /\ last_call.result = "False"
    /\ last_call.program_id.str \in Keys(programs)
    /\ last_call.program_id.str \in Keys(interpreters)

\* The program a start(program_id) is to execute: program_id, or the first
\* loaded program when it is omitted; None when that program is not loaded.
ProgramToStart(program_id) ==
    IF program_id = None
    THEN IF Len(programs) = 0 THEN None ELSE Str(programs[1].name)
    ELSE IF \E i \in 1..Len(programs) : programs[i].name = program_id.str
    THEN program_id ELSE None

\* C26: start() executes a program only when the state is READY or PAUSED
\* and the chosen program_id is loaded (the first loaded program when it is
\* omitted); otherwise it returns False, executes nothing and leaves the
\* state unchanged.  An execution ends in READY with True when execute()
\* completes, in ERROR with error_state set and False when it raises.
C26_StartGuardsAndEndStates ==
    [][/\ NewCall("start") =>
            LET chosen == ProgramToStart(last_call'.program_id)
            IN  IF runtime_state \in {"READY", "PAUSED"} /\ chosen # None
                THEN /\ runtime_pc' = "executing"
                     /\ active_program_id' = chosen
                     /\ program' = Get(programs, chosen.str)
                ELSE /\ last_call'.result = "False"
                     /\ runtime_pc' = "idle"
                     /\ UNCHANGED <<runtime_state, programs, interpreters>>
                     /\ UNCHANGED ivars
       /\ (runtime_pc = "executing" /\ runtime_pc' = "idle") =>
            \/ /\ pc = "done"
               /\ runtime_state' = "READY"
               /\ last_call'.result = "True"
            \/ /\ pc = "raised"
               /\ runtime_state' = "ERROR"
               /\ error_state' # None
               /\ last_call'.result = "False"]_vars

\* With two programs loaded a start() without program_id has executed the
\* first of them and returned True.
C26_Witness ==
    /\ runtime_pc = "idle"
    /\ last_call # None
    /\ last_call.op = "start"
    /\ last_call.program_id = None
    /\ last_call.result = "True"
    /\ Len(programs) = 2
    /\ active_program_id = Str(programs[1].name)
    /\ Len(interpreters[1].value.runs) = 1
    /\ Len(interpreters[2].value.runs) = 0
    /\ runtime_state = "READY"

\* C27: when stop() has returned True the state is STOPPED and the
\* programs and interpreters maps are empty, and from then on a start()
\* returns False and executes nothing unless initialize() has been called
\* again and a program has been loaded again since.
C27_StoppedUntilInitializedAndLoaded ==
    [][/\ NewCall("stop") =>
            /\ last_call'.result = "True"
            /\ runtime_state' = "STOPPED"
            /\ programs' = <<>>
            /\ interpreters' = <<>>
       /\ (/\ NewCall("start")
           /\ "stop" \in last_call'.after_stop
           /\ ~({"initialize", "load_program"} \subseteq last_call'.after_stop)) =>
            /\ last_call'.result = "False"
            /\ runtime_pc' = "idle"
            /\ UNCHANGED ivars]_vars

\* A runtime that was stopped, initialized and loaded again executes a
\* start(), after a start() that was refused while it was stopped.
C27_Witness ==
    /\ runtime_pc = "executing"
    /\ last_call.op = "start"
    /\ last_call.after_stop = {"stop", "initialize", "load_program"}

\* A start() refused because the runtime was stopped with a program loaded
\* after the stop() but no initialize().
C27_RefusedWhileStopped ==
    /\ runtime_pc = "idle"
    /\ last_call # None
    /\ last_call.op = "start"
    /\ last_call.after_stop = {"stop", "load_program"}
    /\ last_call.result = "False"
    /\ runtime_state = "STOPPED"
    /\ Len(programs) > 0

\* C28: between calls the state is one of UNINITIALIZED, READY, STOPPED and
\* ERROR; pause() and resume() return False whenever they are called and
\* the state is never PAUSED.
C28_StatesBetweenCalls ==
    /\ runtime_pc = "idle" =>
            runtime_state \in {"UNINITIALIZED", "READY", "STOPPED", "ERROR"}
    /\ runtime_state \in RuntimeState \ {"PAUSED"}
    /\ (last_call # None /\ last_call.op \in {"pause", "resume"}) =>
            last_call.result = "False"

\* pause() was called on a runtime that has executed a program and is READY.
C28_Witness ==
    /\ runtime_pc = "idle"
    /\ last_call # None
    /\ last_call.op = "pause"
    /\ last_call.result = "False"
    /\ runtime_state = "READY"
    /\ \E i \in 1..Len(interpreters) : Len(interpreters[i].value.runs) > 0

\* C23: for every source text that lexes and parses, the execution that
\* start() begins completes without an exception, and start() returns True
\* leaving the runtime READY.
C23_ParsedSourceExecutesToReady ==
    [][(runtime_pc = "executing" /\ runtime_pc' = "idle") =>
            /\ pc = "done"
            /\ last_call'.result = "True"
            /\ runtime_state' = "READY"]_vars

\* The same for the sources whose Resonate thresholds are numbers; of the
\* sources above only the execution of StringThreshold raises.
ExecutesToReadyUnlessThresholdIsNoNumber ==
    [][(/\ runtime_pc = "executing"
        /\ runtime_pc' = "idle"
        /\ program # Compiled[StringThreshold].program) =>
            /\ pc = "done"
            /\ \A i \in 1..Len(evals) : evals[i].outcome \in {"manifested", "deferred"}
            /\ last_call'.result = "True"
            /\ runtime_state' = "READY"]_vars

\* The outcomes of the Manifests of one execute() call, in order
Outcomes(run) == [i \in 1..Len(run.evals) |-> run.evals[i].outcome]

SecondExecutionKeepsRegistries ==
    \A i \in 1..Len(interpreters) :
        LET runs == interpreters[i].value.runs
        IN  \A j \in 2..Len(runs) :
                /\ runs[j].covenants = runs[j - 1].covenants
                /\ runs[j].pantheons = runs[j - 1].pantheons
                /\ runs[j].domains = runs[j - 1].domains

\* A program_id has been executed twice on its interpreter.
ExecutedTwice ==
    \E i \in 1..Len(interpreters) : Len(interpreters[i].value.runs) = 2

====
